---- MODULE Spec2Model ----
(***************************************************************************)
(* Verification model of the scraping scripts' fetch layer, batch          *)
(* coordinator, CSV sink and listing collectors.                           *)
(*                                                                         *)
(* Durations are fixed-point numbers of milliseconds (the code computes    *)
(* with float seconds): 2.0 s is 2000, current_delay * 0.9 is              *)
(* (current_delay * 9) \div 10.  random.uniform(0, 1) is a choice from      *)
(* Jitter, which holds 0 (random() may return 0.0) and a value below 1 s.  *)
(***************************************************************************)
EXTENDS Integers, Sequences, FiniteSets, TLC

VARIABLES
    \* ---- fetch client: module globals of scraper.py
    site,            \* which script runs: "gamers" or "server"
    PAGE_CACHE,      \* dict: cache key -> parsed document
    CACHE_HITS,
    CACHE_MISSES,
    rate_limiter,    \* the global RateLimiter: current_delay, success_count, last_429_time
    \* ---- fetch client: the running fetch_page call
    pc,              \* "idle" | "wait" | "attempt" | "done"
    call,            \* arguments and locals of the call: url, use_cache, retries, i, result, log, waits
    calls,           \* number of fetch_page calls started
    net_gets,        \* number of GETs issued so far (also the logical clock of time.time())
    cached_ok,       \* per URL: the last successful use_cache=True call (its result and GET count)
    pre,             \* the globals as they were when the running call started its last step
    \* ---- RateLimiter driven directly
    lim_ops,         \* number of report_* calls made
    lim_last,        \* the last report_* call: op, its argument, the state before it
    \* ---- batch coordinator (nontransactional.py main, step 3)
    outcome,         \* per parcel of the chunk: what its enrich_single_parcel call does
    fstate,          \* per parcel: its future, "none" | "running" | "finished" | "collected"
    enriched_results,
    stats,           \* StatsTracker: parcels_found, parcels_enriched, errors
    bpc,             \* "start" | "collecting" | "shutdown" | "written" | "raised"
    csv_rows,        \* number of rows append_to_csv wrote for the batch
    \* ---- CSV sink (append_to_csv / write_rows)
    file,            \* the output file: whether it exists, and its lines
    appended,        \* the row lists passed to the sink so far
    \* ---- listing collector (get_all_products_from_category / get_products_from_category)
    all_products,    \* the product URLs parsed from the cards so far, in order
    cpc,             \* "start" | "paging" | "returned"
    page,            \* the page fetched next
    num_pages,       \* Gamers: the page count parsed from the first page
    returned,        \* the list the collector returned
    repeat_seen,     \* whether a later page repeated an item of an earlier page
    \* ---- RateLimiter called from the pool's worker threads
    thr,             \* per worker thread: the report_* call it makes and its position in it
    lock,            \* the holder of RateLimiter.lock (0: free)
    race_start,      \* the limiter's state before the workers' calls
    \* ---- LimitedCache (transactions_cache, metrics_cache) set from worker threads
    lc,              \* the LimitedCache: cache (dict) and access_order (deque)
    lc_thr,          \* per worker thread: the key it sets, its position in set(), old_key
    lc_start,        \* the cache before the workers' calls
    lc_seq,          \* set() called in sequence: the calls made, when each key came in
    \* ---- writers of an output CSV (Gamers main(); filter_tires_updated.py)
    script,          \* "gamers": main()'s detail pool; "tires": crawl_tires_listing's Pool
    wr,              \* per pool worker: its position, the items it has left, what it saw
    wr_writers,      \* the threads or processes that have appended to the file (0: main)
    \* ---- batch fetch (batch_fetch_details / batch_fetch_geometries); its cache is lc
    bf_items,        \* tx_list: the keys of the work items passed to the call
    bf,              \* the call's position and locals: results, to_fetch, i
    bf_fut,          \* per item: its future, the worker's outcome, submissions, handling
    bf_calls,        \* number of batch fetch calls started
    bf_prev,         \* the keys whose fetch failed in an earlier call
    \* ---- a whole run of a script, which an interrupt may end
    run_script,      \* "main" (main.py) | "geometry" (geometry.py) | "gamers" (scraper.py)
    run,             \* the run's position, the rows it holds in memory, what it completed
    \* ---- Parcel-Centric All Parcels main.py: the loop over the pool's futures
    ap_data,         \* per parcel: the transactions fetch_details returns for it
    ap,              \* the futures, transactions_file_initialized, the run's number
    \* ---- get_products_from_category: what its loop has fetched
    pg,              \* the number of listing pages fetched, and what the last one was
    \* ---- fetch_page called from several pool workers at once
    fr,              \* per worker: its URL, its position in fetch_page, what it returned
    \* ---- enrich_single_parcel and the counting of its status
    en,              \* the parcels enriched so far, and what the last one met
    \* ---- chk_regions.py run again over its own output file
    rs,              \* the rows of the file per region and key, the run, its regions
    \* ---- the seen-sets of the Suhail scrapers
    dd_script,       \* "main" | "nontransactional" | "parcel"
    dd               \* the seen-set, the keys admitted to enrichment, the keys written

fetchVars == <<site, PAGE_CACHE, CACHE_HITS, CACHE_MISSES, rate_limiter, pc, call,
               calls, net_gets, cached_ok, pre>>
limVars   == <<lim_ops, lim_last>>
batchVars == <<outcome, fstate, enriched_results, stats, bpc, csv_rows>>
sinkVars  == <<file, appended>>
collVars  == <<all_products, cpc, page, num_pages, returned, repeat_seen>>
raceVars  == <<thr, lock, race_start>>
coreVars  == <<fetchVars, limVars, batchVars, sinkVars, collVars>>
lcVars    == <<lc, lc_thr, lc_start, lc_seq>>
wrVars    == <<script, wr, wr_writers>>
bfVars    == <<bf_items, bf, bf_fut, bf_calls, bf_prev>>
runVars   == <<run_script, run>>
apVars    == <<ap_data, ap>>
tailVars  == <<en, rs, dd_script, dd>>
moreVars  == <<apVars, pg, fr, tailVars>>
extVars   == <<raceVars, lcVars, wrVars, bfVars, runVars, moreVars>>
vars      == <<coreVars, extVars>>

Min(a, b) == IF a <= b THEN a ELSE b
Max(a, b) == IF a >= b THEN a ELSE b
Last(s)   == s[Len(s)]

(***************************************************************************)
(* Bounds of the model.                                                    *)
(***************************************************************************)
MaxCalls   == 2      \* fetch_page calls per run
MaxLimOps  == 12     \* report_* calls when the limiter is driven directly
MaxItems   == 3      \* parcels in one chunk handed to the enrichment pool
MaxAppends == 3      \* calls of the sink
MaxRows    == 2      \* rows in one call of the sink
MaxPages   == 2      \* pages of a listing
MaxCards   == 2      \* product cards on one listing page
MaxWorkers == 2      \* worker threads of a pool that run at the same time
MaxCacheSize == 3    \* max_size of the LimitedCache (CACHE_SIZE_LIMIT, scaled down)
MaxChunk   == 2      \* items submitted to one pool (BATCH_SIZE, scaled down)
MaxBfCalls == 2      \* batch fetch calls per run
MaxBatch   == 2      \* listings in the batch one pool process crawls
MaxSets    == 2      \* LimitedCache.set calls made in sequence, beyond max_size calls
MaxParcels == 2      \* parcels of the inventory (parcels_to_process)
MaxTx      == 2      \* transactions the API returns for one parcel
MaxRuns    == 2      \* consecutive runs of a script over the same output path
MaxEnrich  == 2      \* parcels enriched and counted in one run
MaxStreams == 3      \* batches of keys met in one run (neighborhoods, tile chunks)
MaxRegions == 2      \* batches of a run: regions (REGION_IDS), or products of the pool

URLs    == {"u1", "u2"}
Docs    == {"d1", "d2"}
Jitter  == {0, 500}
Sites   == {"gamers", "server"}
RetryBudgets == {1, 2}   \* the `retries` arguments tried (the defaults are 8 and 4)

(***************************************************************************)
(* RateLimiter                                                             *)
(***************************************************************************)
successThreshold == 10
DecayNum         == 9
DecayDen         == 10
SleepCapMs       == 300000
FetchBaseDelayMs == 5000

\* RateLimiter.__init__ defaults: base_delay=2.0/max_delay=60.0 (Gamers),
\* base_delay=1.0/max_delay=10.0 (Server My Store)
base_delay(s) == IF s = "gamers" THEN 2000 ELSE 1000
max_delay(s)  == IF s = "gamers" THEN 60000 ELSE 10000

RateLimiterInit(s) ==
    [current_delay |-> base_delay(s), last_429_time |-> 0, success_count |-> 0]

\* report_success with the decay test always taken (the floor test dropped)
report_success_nofloor(rl, s) ==
    LET n == rl.success_count + 1 IN
    IF n >= successThreshold
    THEN [rl EXCEPT !.current_delay = (rl.current_delay * DecayNum) \div DecayDen,
                    !.success_count = 0]
    ELSE [rl EXCEPT !.success_count = n]

report_success(rl, s) ==
    LET n == rl.success_count + 1 IN
    IF n >= successThreshold /\ rl.current_delay > base_delay(s)
    THEN [rl EXCEPT !.current_delay =
                        Max(base_delay(s), (rl.current_delay * DecayNum) \div DecayDen),
                    !.success_count = 0]
    ELSE [rl EXCEPT !.success_count = n]

\* report_429 that ignores the hint and always doubles
report_429_double(rl, s, retry_after, now) ==
    [rl EXCEPT !.last_429_time = now,
               !.current_delay = Min(max_delay(s), rl.current_delay * 2),
               !.success_count = 0]

\* retry_after is the float the caller passes; `if retry_after:` is false for 0.0
report_429(rl, s, retry_after, now) ==
    [rl EXCEPT !.last_429_time = now,
               !.current_delay = IF retry_after # 0
                                 THEN Min(max_delay(s), retry_after + 1000)
                                 ELSE Min(max_delay(s), rl.current_delay * 2),
               !.success_count = 0]

(***************************************************************************)
(* fetch_page                                                              *)
(***************************************************************************)
RetryAfterValues == {0, 5, 400}         \* seconds in a numeric Retry-After header
ErrorStatuses    == {404, 503}          \* HTTP error statuses other than 429

\* the Retry-After header of a response: absent, not all digits ("http-date"), ASCII
\* digits, or characters for which str.isdigit() is true and int() raises ValueError
\* ("superscript": U+00B2, which the latin-1 decoding of header bytes can produce)
NoHeader == [text |-> "none", n |-> 0]
Headers  == {NoHeader, [text |-> "http-date", n |-> 0], [text |-> "superscript", n |-> 0]}
            \cup {[text |-> "digits", n |-> k] : k \in RetryAfterValues}

\* `retry_after and retry_after.isdigit()`
retry_after_isdigit(hdr) == hdr.text \in {"digits", "superscript"}

\* whether int(retry_after) raises ValueError
int_raises(hdr) == hdr.text = "superscript"

\* what session.get / raise_for_status can do at one attempt
Responses ==
    {[kind |-> "ok", code |-> 200, doc |-> d, hdr |-> NoHeader] : d \in Docs}
    \cup {[kind |-> "http", code |-> c, doc |-> "None", hdr |-> NoHeader] : c \in ErrorStatuses}
    \cup {[kind |-> "http", code |-> 429, doc |-> "None", hdr |-> h] : h \in Headers}
    \cup {[kind |-> "conn", code |-> 0, doc |-> "None", hdr |-> NoHeader],
          [kind |-> "timeout", code |-> 0, doc |-> "None", hdr |-> NoHeader],
          [kind |-> "exc", code |-> 0, doc |-> "None", hdr |-> NoHeader]}

\* hashlib.md5(url.encode()).hexdigest(): distinct URLs of a run give distinct digests
get_cache_key(url) == <<"md5", url>>

\* a lookup that never hits
cache_hit_never(cache, use_cache, cache_key) == FALSE

\* `if use_cache and cache_key in PAGE_CACHE`
cache_hit(cache, use_cache, cache_key) == use_cache /\ cache_key \in DOMAIN cache

\* a store that forgets the document
cache_store_skip(cache, use_cache, cache_key, soup) == cache

\* `if use_cache: PAGE_CACHE[cache_key] = soup`
cache_store(cache, use_cache, cache_key, soup) ==
    IF use_cache
    THEN [k \in (DOMAIN cache) \cup {cache_key} |-> IF k = cache_key THEN soup ELSE cache[k]]
    ELSE cache

\* a status test that also retries 503
is_429_or_503(code) == code \in {429, 503}

\* `if e.response.status_code == 429`
is_429(code) == code = 429

Pow2(n) == IF n = 0 THEN 1 ELSE IF n = 1 THEN 2 ELSE IF n = 2 THEN 4 ELSE IF n = 3 THEN 8 ELSE 16

\* the 429 delay without the +random.uniform(0, 1) and with the hint halved
delay_429_halved(hdr, i, r) ==
    IF retry_after_isdigit(hdr)
    THEN Min((hdr.n * 1000) \div 2, SleepCapMs)
    ELSE Min(FetchBaseDelayMs * Pow2(i) + r, SleepCapMs)

\* the delay computed in the 429 handler; r is random.uniform(0, 1)
delay_429(hdr, i, r) ==
    IF retry_after_isdigit(hdr)
    THEN Min(hdr.n * 1000 + r, SleepCapMs)
    ELSE Min(FetchBaseDelayMs * Pow2(i) + r, SleepCapMs)

\* the connection-error delay: base_delay * (i + 1)
delay_conn(i) == FetchBaseDelayMs * (i + 1)

Snapshot == [cache |-> PAGE_CACHE, rl |-> rate_limiter, gets |-> net_gets]

NoCall == [url |-> "u1", use_cache |-> FALSE, retries |-> 0, i |-> 0,
           result |-> "None", log |-> <<>>, waits |-> 0]

\* fetch_page up to the cache check: a hit returns, a miss goes on to wait()
FetchCall(u, uc, R) ==
    /\ pc \in {"idle", "done"}
    /\ calls < MaxCalls
    /\ calls' = calls + 1
    /\ pre' = Snapshot
    /\ IF cache_hit(PAGE_CACHE, uc, get_cache_key(u))
       THEN /\ CACHE_HITS' = CACHE_HITS + 1
            /\ call' = [url |-> u, use_cache |-> uc, retries |-> R, i |-> 0,
                        result |-> PAGE_CACHE[get_cache_key(u)], log |-> <<>>, waits |-> 0]
            /\ pc' = "done"
            /\ UNCHANGED CACHE_MISSES
       ELSE /\ CACHE_MISSES' = CACHE_MISSES + 1
            /\ call' = [url |-> u, use_cache |-> uc, retries |-> R, i |-> 0,
                        result |-> "None", log |-> <<>>, waits |-> 0]
            /\ pc' = "wait"
            /\ UNCHANGED CACHE_HITS
    /\ UNCHANGED <<site, PAGE_CACHE, rate_limiter, net_gets, cached_ok>>

\* rate_limiter.wait(): reads current_delay and sleeps; changes nothing
FetchWait ==
    /\ pc = "wait"
    /\ call' = [call EXCEPT !.waits = @ + 1]
    /\ pc' = "attempt"
    /\ UNCHANGED <<site, PAGE_CACHE, CACHE_HITS, CACHE_MISSES, rate_limiter, calls,
                   net_gets, cached_ok, pre>>

\* a return value that names the kind of the failure that used up the retries
exhausted_result_classified(log) ==
    IF Last(log).kind = "timeout" THEN "timeout"
    ELSE IF Last(log).kind = "conn" THEN "connection-error"
    ELSE "rate-limited"

\* `return None` after the loop
exhausted_result(log) == "None"

\* after a retriable failure at attempt i: next iteration, or the loop ends and None is returned
AfterRetriable(entry) ==
    /\ call' = [call EXCEPT !.i = @ + 1, !.log = Append(@, entry),
                            !.result = IF call.i + 1 < call.retries THEN "None"
                                       ELSE exhausted_result(Append(call.log, entry))]
    /\ pc' = IF call.i + 1 < call.retries THEN "attempt" ELSE "done"

\* one iteration of `for i in range(retries)`: the GET and the handler of its outcome
FetchAttempt(resp, r) ==
    /\ pc = "attempt"
    /\ call.i < call.retries
    /\ net_gets' = net_gets + 1
    /\ pre' = Snapshot
    /\ UNCHANGED <<site, CACHE_HITS, CACHE_MISSES, calls>>
    /\ CASE resp.kind = "ok" ->
              /\ PAGE_CACHE' = cache_store(PAGE_CACHE, call.use_cache,
                                           get_cache_key(call.url), resp.doc)
              /\ rate_limiter' = report_success(rate_limiter, site)
              /\ call' = [call EXCEPT !.result = resp.doc,
                                      !.log = Append(@, [kind |-> "ok", code |-> 200,
                                                         hdr |-> resp.hdr, doc |-> resp.doc,
                                                         slept |-> 0])]
              /\ pc' = "done"
              /\ cached_ok' = IF call.use_cache
                              THEN [cached_ok EXCEPT ![call.url] =
                                       [call |-> calls, result |-> resp.doc,
                                        gets |-> Len(call.log) + 1]]
                              ELSE cached_ok
         [] resp.kind \in {"conn", "timeout"} ->
              \* requests.exceptions.ConnectionError, requests.exceptions.ReadTimeout
              /\ AfterRetriable([kind |-> resp.kind, code |-> 0, hdr |-> resp.hdr,
                                 doc |-> "None", slept |-> delay_conn(call.i)])
              /\ UNCHANGED <<PAGE_CACHE, rate_limiter, cached_ok>>
         [] resp.kind = "http" /\ is_429(resp.code) /\ retry_after_isdigit(resp.hdr)
                /\ int_raises(resp.hdr) ->
              \* int(retry_after) raises inside the except clause: the ValueError leaves
              \* fetch_page before report_429 and before the sleep
              /\ call' = [call EXCEPT !.result = "ValueError",
                                      !.log = Append(@, [kind |-> "http", code |-> resp.code,
                                                         hdr |-> resp.hdr, doc |-> "None",
                                                         slept |-> 0])]
              /\ pc' = "done"
              /\ UNCHANGED <<PAGE_CACHE, rate_limiter, cached_ok>>
         [] resp.kind = "http" /\ is_429(resp.code)
                /\ ~(retry_after_isdigit(resp.hdr) /\ int_raises(resp.hdr)) ->
              /\ rate_limiter' = report_429(rate_limiter, site,
                                            delay_429(resp.hdr, call.i, r), net_gets + 1)
              /\ AfterRetriable([kind |-> "http", code |-> resp.code, hdr |-> resp.hdr,
                                 doc |-> "None", slept |-> delay_429(resp.hdr, call.i, r)])
              /\ UNCHANGED <<PAGE_CACHE, cached_ok>>
         [] OTHER ->
              \* any other HTTPError, any other exception: return None
              /\ call' = [call EXCEPT !.result = "None",
                                      !.log = Append(@, [kind |-> resp.kind, code |-> resp.code,
                                                         hdr |-> resp.hdr, doc |-> "None",
                                                         slept |-> 0])]
              /\ pc' = "done"
              /\ UNCHANGED <<PAGE_CACHE, rate_limiter, cached_ok>>

NoFill == [call |-> 0, result |-> "None", gets |-> 0]

limIdle ==
    /\ lim_ops = 0
    /\ lim_last = [op |-> "none", arg |-> 0, before |-> RateLimiterInit("gamers")]

batchIdle ==
    /\ outcome = <<>> /\ fstate = <<>> /\ enriched_results = <<>>
    /\ stats = [parcels_found |-> 0, parcels_enriched |-> 0, errors |-> 0]
    /\ bpc = "start" /\ csv_rows = 0

sinkIdle ==
    /\ file = [exists |-> FALSE, lines |-> <<>>]
    /\ appended = <<>>

collIdle ==
    /\ all_products = <<>> /\ cpc = "start" /\ page = 1 /\ num_pages = 1
    /\ returned = <<>> /\ repeat_seen = FALSE

raceIdle ==
    /\ thr = <<>> /\ lock = 0 /\ race_start = RateLimiterInit("gamers")

EmptyCache == [cache |-> <<>>, access_order |-> <<>>]

LcSeqIdle == [ops |-> 0, ins_at |-> <<>>, set_at |-> <<>>, key |-> 0,
              before |-> [keys |-> {}, ins_at |-> <<>>, set_at |-> <<>>]]

lcIdle ==
    /\ lc = EmptyCache /\ lc_thr = <<>> /\ lc_start = EmptyCache /\ lc_seq = LcSeqIdle

wrIdle ==
    /\ script = "gamers" /\ wr = <<>> /\ wr_writers = {}

BfIdleCall == [pc |-> "idle", results |-> <<>>, to_fetch |-> <<>>, i |-> 0]

bfIdle ==
    /\ bf_items = <<>> /\ bf = BfIdleCall /\ bf_fut = <<>> /\ bf_calls = 0 /\ bf_prev = {}

RunIdle == [pc |-> "start", batch |-> 1, cur |-> <<>>, rows |-> <<>>, completed |-> <<>>, n |-> 0]

runIdle ==
    /\ run_script = "main" /\ run = RunIdle

ApIdle == [fut |-> <<>>, initialized |-> FALSE, runs |-> 0]

apIdle ==
    /\ ap_data = <<>> /\ ap = ApIdle

PgIdle == [fetches |-> 0, ok |-> FALSE, cards |-> 0, has_next |-> FALSE]

EnIdle == [n |-> 0, fetch_error |-> FALSE, status |-> "TILE_ONLY", inp |-> <<>>,
           errors_before |-> 0]

RsIdle == [pc |-> "idle", runs |-> 0, api |-> <<>>, rows |-> <<>>, had |-> <<>>,
           todo |-> <<>>, skipped |-> {}]

DdIdle == [seen |-> {}, admitted |-> <<>>, written |-> <<>>, n |-> 0, repeat |-> FALSE]

tailIdle == en = EnIdle /\ rs = RsIdle /\ dd_script = "main" /\ dd = DdIdle

moreIdle == apIdle /\ pg = PgIdle /\ fr = <<>> /\ tailIdle

extIdle == raceIdle /\ lcIdle /\ wrIdle /\ bfIdle /\ runIdle /\ moreIdle

fetchIdle ==
    /\ PAGE_CACHE = <<>>
    /\ CACHE_HITS = 0 /\ CACHE_MISSES = 0
    /\ pc = "idle" /\ call = NoCall /\ calls = 0 /\ net_gets = 0
    /\ cached_ok = [u \in URLs |-> NoFill]
    /\ pre = [cache |-> <<>>, rl |-> rate_limiter, gets |-> 0]

Init ==
    /\ site \in Sites
    /\ rate_limiter = RateLimiterInit(site)
    /\ fetchIdle
    /\ limIdle /\ batchIdle /\ sinkIdle /\ collIdle /\ extIdle

Next ==
    \/ \E u \in URLs, uc \in BOOLEAN, R \in RetryBudgets :
          FetchCall(u, uc, R) /\ UNCHANGED <<limVars, batchVars, sinkVars, collVars, extVars>>
    \/ FetchWait /\ UNCHANGED <<limVars, batchVars, sinkVars, collVars, extVars>>
    \/ \E resp \in Responses, r \in Jitter :
          FetchAttempt(resp, r) /\ UNCHANGED <<limVars, batchVars, sinkVars, collVars, extVars>>

Spec == Init /\ [][Next]_vars

(***************************************************************************)
(* Properties of fetch_page, checked under Spec                            *)
(***************************************************************************)
\* the running call has returned and an earlier use_cache=True call fetched its URL successfully
SecondCachedFetch ==
    /\ pc = "done"
    /\ call.use_cache
    /\ cached_ok[call.url].call # 0
    /\ cached_ok[call.url].call < calls

\* C1 as stated: after a successful fetch_page(u, use_cache=True), a second such call
\* returns the identical document without a GET, and exactly one GET to u was issued
\* across the two calls.
C1_ExactlyOneGet ==
    SecondCachedFetch =>
        /\ call.result = cached_ok[call.url].result
        /\ Len(call.log) = 0
        /\ cached_ok[call.url].gets + Len(call.log) = 1

\* C1 amended: the second call returns the identical document and issues no GET (and no
\* wait); the GETs to u across the two calls are those of the first call, one or more
\* (the first call may have retried after a 429 or a connection error).
C1_SecondCallIsCacheHit ==
    SecondCachedFetch =>
        /\ call.result = cached_ok[call.url].result
        /\ call.result \in Docs
        /\ Len(call.log) = 0
        /\ net_gets = pre.gets
        /\ cached_ok[call.url].gets >= 1

C1_Witness ==
    /\ SecondCachedFetch
    /\ cached_ok[call.url].gets = 2
    /\ call.result = cached_ok[call.url].result

\* the last GET of the running call was answered 429 with a numeric Retry-After header
Handled429Numeric ==
    /\ pc \in {"attempt", "done"}
    /\ Len(call.log) > 0
    /\ Last(call.log).code = 429
    /\ Last(call.log).hdr.text = "digits"

\* C2 as stated: after fetch_page handles a 429 carrying a numeric Retry-After: N, the
\* limiter's current_delay is at least N seconds.
C2_DelayAtLeastN ==
    Handled429Numeric => rate_limiter.current_delay >= Last(call.log).hdr.n * 1000

\* C2 amended: after fetch_page handles a 429 carrying a numeric Retry-After: N, the
\* limiter's current_delay is at least min(N, max_delay).
C2_DelayAtLeastMinNMax ==
    Handled429Numeric =>
        rate_limiter.current_delay >= Min(Last(call.log).hdr.n * 1000, max_delay(site))

C2_Witness ==
    /\ Handled429Numeric
    /\ Last(call.log).hdr.n = 5
    /\ Len(call.log) = 2
    /\ call.log[1].code = 429

\* the running call saw 429 with Retry-After: 5 at its first GET and 200 at its second
Scenario429Then200 ==
    /\ pc = "done"
    /\ Len(call.log) = 2
    /\ call.log[1].code = 429
    /\ call.log[1].hdr = [text |-> "digits", n |-> 5]
    /\ call.log[2].kind = "ok"

\* C7: 429 with Retry-After: 5 at the first GET and 200 at the second: fetch_page returns
\* the parsed 200 response and the caller slept at least 5 s between the two GETs.
C7_SleepsRetryAfter ==
    Scenario429Then200 =>
        /\ call.result = call.log[2].doc
        /\ call.result \in Docs
        /\ call.log[1].slept >= 5000

C7_Witness == Scenario429Then200 /\ call.result = "d2"

\* the running call has returned and every GET it issued was answered 503
All503 ==
    /\ pc = "done"
    /\ Len(call.log) > 0
    /\ \A k \in 1..Len(call.log) : call.log[k].kind = "http" /\ call.log[k].code = 503

\* C8 as stated: when every GET is answered 503, fetch_page(url, retries=R) issues
\* exactly R GETs and then returns a failure.
C8_RetriesTimes ==
    All503 => Len(call.log) = call.retries /\ call.result = "None"

\* C8 amended: when the GET is answered 503, fetch_page(url, retries=R) issues exactly
\* one GET, whatever R is, and returns the failure value None.
C8_OneAttempt ==
    All503 => Len(call.log) = 1 /\ call.result = "None"

C8_Witness == All503 /\ call.retries = 2

\* the running call found its key in the cache when it started, with use_cache=True
CacheHitCase ==
    /\ pc # "idle"
    /\ call.use_cache
    /\ get_cache_key(call.url) \in DOMAIN pre.cache

\* C9: a use_cache=True call whose key is in the cache returns the cached document
\* without wait(), without a GET, and leaves the cache and the limiter as they were.
C9_CacheHitFrame ==
    CacheHitCase =>
        /\ pc = "done"
        /\ call.result = pre.cache[get_cache_key(call.url)]
        /\ call.waits = 0
        /\ Len(call.log) = 0
        /\ net_gets = pre.gets
        /\ PAGE_CACHE = pre.cache
        /\ rate_limiter = pre.rl

C9_Witness == CacheHitCase /\ pc = "done" /\ CACHE_HITS = 1

\* entry k of the running call's log is an HTTP error status other than 429
OtherHttpError(k) == call.log[k].kind = "http" /\ call.log[k].code # 429

\* C10: a GET answered with an HTTP error status other than 429 is the call's last GET:
\* fetch_page returns None at once, the cache is not written, and neither
\* report_success nor report_429 is called for it.
C10_NoRetryOnHttpError ==
    (pc # "idle") =>
        \A k \in 1..Len(call.log) :
            OtherHttpError(k) =>
                /\ k = Len(call.log)
                /\ pc = "done"
                /\ call.result = "None"
                /\ net_gets = pre.gets + 1
                /\ PAGE_CACHE = pre.cache
                /\ rate_limiter = pre.rl

C10_Witness ==
    /\ pc = "done"
    /\ call.retries = 2
    /\ Len(call.log) = 2
    /\ call.log[1].code = 429
    /\ OtherHttpError(2)
    /\ call.log[2].code = 404

\* entry k of the running call's log is a retriable failure: a connection error, a read
\* timeout or a 429
Retriable(k) == call.log[k].kind \in {"conn", "timeout"} \/ call.log[k].code = 429

\* the running call has ended and every GET it issued met a retriable failure
AllRetriable ==
    /\ pc = "done"
    /\ Len(call.log) > 0
    /\ \A k \in 1..Len(call.log) : Retriable(k)

\* C11: a connection error or read timeout at attempt k (1-based) is followed by a sleep
\* of base_delay * k; whatever the mix of connection errors and 429s, one fetch_page
\* call issues at most `retries` GETs and ends by returning the failure value, without
\* raising.
C11_RetriableFailuresReturnNone ==
    /\ (pc # "idle") =>
           \A k \in 1..Len(call.log) :
               call.log[k].kind \in {"conn", "timeout"} =>
                   call.log[k].slept = FetchBaseDelayMs * k
    /\ AllRetriable =>
           /\ Len(call.log) <= call.retries
           /\ call.result = "None"

\* the last GET of the running call was answered 429 without a numeric Retry-After header
Handled429NoHint ==
    /\ pc \in {"attempt", "done"}
    /\ Len(call.log) > 0
    /\ Last(call.log).code = 429
    /\ Last(call.log).hdr.text \in {"none", "http-date"}

\* C12: after fetch_page handles a 429 that has no Retry-After header, or a non-numeric
\* one, the limiter's current_delay is min(max_delay, 2 * its value before).
C12_DelayDoublesWithoutHint ==
    Handled429NoHint =>
        rate_limiter.current_delay = Min(max_delay(site), 2 * pre.rl.current_delay)

\* the running call used up its retries: `retries` GETs, each a retriable failure that
\* was handled
Exhausted ==
    /\ AllRetriable
    /\ Len(call.log) = call.retries
    /\ call.result # "ValueError"

Classifications == {"timeout", "rate-limited", "connection-error"}

\* C17 as stated: when fetch_page has used up its retries on retriable failures, the
\* value it returns carries a classification among timeout, rate-limited and
\* connection-error.
C17_FailureIsClassified ==
    Exhausted => call.result \in Classifications

\* C17 amended: when fetch_page has used up its retries on retriable failures it returns
\* None, whatever the failures were: the returned value is the same after timeouts,
\* connection errors and 429s, and the same as after a non-retriable error.
C17_FailureIsNone ==
    /\ Exhausted => call.result = "None"
    /\ (pc = "done" /\ Len(call.log) > 0 /\ Last(call.log).kind \in {"http", "exc"}
           /\ Last(call.log).code # 429) => call.result = "None"

C17_Witness ==
    /\ Exhausted
    /\ call.retries = 2
    /\ call.log[1].kind = "timeout"
    /\ call.log[2].code = 429
    /\ call.result = "None"

(***************************************************************************)
(* The RateLimiter driven by the calls fetch_page makes on it              *)
(***************************************************************************)
\* rate_limiter.report_success(), as called after a 2xx response
LimReportSuccess ==
    /\ lim_ops < MaxLimOps
    /\ lim_ops' = lim_ops + 1
    /\ lim_last' = [op |-> "success", arg |-> 0, before |-> rate_limiter]
    /\ rate_limiter' = report_success(rate_limiter, site)
    /\ UNCHANGED <<site, PAGE_CACHE, CACHE_HITS, CACHE_MISSES, pc, call, calls, net_gets,
                   cached_ok, pre>>

\* rate_limiter.report_429(delay), with the delay the 429 handler computes at attempt i
LimReport429(hdr, i, r) ==
    /\ lim_ops < MaxLimOps
    /\ lim_ops' = lim_ops + 1
    /\ lim_last' = [op |-> "429", arg |-> delay_429(hdr, i, r), before |-> rate_limiter]
    /\ rate_limiter' = report_429(rate_limiter, site, delay_429(hdr, i, r), lim_ops + 1)
    /\ UNCHANGED <<site, PAGE_CACHE, CACHE_HITS, CACHE_MISSES, pc, call, calls, net_gets,
                   cached_ok, pre>>

NextLimiter ==
    \/ LimReportSuccess /\ UNCHANGED <<batchVars, sinkVars, collVars, extVars>>
    \/ \E hdr \in {h \in Headers : ~int_raises(h)}, i \in {R - 1 : R \in RetryBudgets},
          r \in Jitter :
          LimReport429(hdr, i, r) /\ UNCHANGED <<batchVars, sinkVars, collVars, extVars>>

SpecLimiter == Init /\ [][NextLimiter]_vars

\* the last call on the limiter was the report_success at which success_count reached
\* successThreshold
ThresholdCall ==
    /\ lim_last.op = "success"
    /\ lim_last.before.success_count + 1 >= successThreshold

\* C3 as stated: at the report_success call that completes successThreshold consecutive
\* successes current_delay strictly decreases, and after any report_success call
\* current_delay is not below base_delay.
C3_StrictDecrease ==
    /\ ThresholdCall => rate_limiter.current_delay < lim_last.before.current_delay
    /\ lim_last.op = "success" => rate_limiter.current_delay >= base_delay(site)

\* C3 amended: at the threshold call current_delay strictly decreases, to no less than
\* base_delay, when it was above base_delay, and is unchanged when it was not; no
\* report_success call takes current_delay below base_delay (after the call it is at
\* least the smaller of base_delay and its value before the call).
C3_DecreaseAboveFloor ==
    /\ (ThresholdCall /\ lim_last.before.current_delay > base_delay(site)) =>
           /\ rate_limiter.current_delay < lim_last.before.current_delay
           /\ rate_limiter.current_delay >= base_delay(site)
    /\ (ThresholdCall /\ lim_last.before.current_delay <= base_delay(site)) =>
           rate_limiter.current_delay = lim_last.before.current_delay
    /\ lim_last.op = "success" =>
           rate_limiter.current_delay >=
               Min(base_delay(site), lim_last.before.current_delay)

C3_Witness ==
    /\ ThresholdCall
    /\ lim_last.before.success_count = successThreshold - 1
    /\ lim_last.before.current_delay > base_delay(site)
    /\ rate_limiter.current_delay < lim_last.before.current_delay
    /\ rate_limiter.success_count = 0

\* C24: in every reachable state of the shared RateLimiter, after any sequence of
\* successes and 429s (without Retry-After, or with a numeric one, 0 included),
\* base_delay <= current_delay <= max_delay.
C24_DelayWithinBounds ==
    /\ base_delay(site) <= rate_limiter.current_delay
    /\ rate_limiter.current_delay <= max_delay(site)

(***************************************************************************)
(* Batch enrichment: step 3 of main() in nontransactional.py               *)
(***************************************************************************)
\* what one enrich_single_parcel call ends with: the enrichment_status it returns, or an
\* exception it raises
Statuses == {"TILE_ONLY", "API_ENRICHED", "ERROR", "NEIGHBORHOOD_INFERRED", "DEFAULT_PROVINCE"}
Outcomes == Statuses \cup {"raise"}

Items == DOMAIN outcome

StatsInit == [parcels_found |-> 0, parcels_enriched |-> 0, errors |-> 0]

\* the counting in the collection loop: `if 'API_ENRICHED' in status ... elif 'ERROR' in status`
count_status(st, status) ==
    IF status = "API_ENRICHED" THEN [st EXCEPT !.parcels_enriched = @ + 1]
    ELSE IF status = "ERROR" THEN [st EXCEPT !.errors = @ + 1]
    ELSE st

\* stats.parcels_found += len(unique_parcels); every parcel is submitted to the pool
BatchSubmit ==
    /\ bpc = "start"
    /\ stats' = [stats EXCEPT !.parcels_found = @ + Len(outcome)]
    /\ fstate' = [p \in Items |-> "running"]
    /\ bpc' = "collecting"
    /\ UNCHANGED <<outcome, enriched_results, csv_rows>>

\* a pool thread finishes its enrich_single_parcel call; the future holds the result or
\* the exception
WorkerFinish(p) ==
    /\ fstate[p] = "running"
    /\ fstate' = [fstate EXCEPT ![p] = "finished"]
    /\ UNCHANGED <<outcome, enriched_results, stats, bpc, csv_rows>>

\* one iteration of `for future in as_completed(futures)`: future.result() returns the
\* pair or re-raises the worker's exception, which leaves the loop
Collect(p) ==
    /\ bpc = "collecting"
    /\ fstate[p] = "finished"
    /\ fstate' = [fstate EXCEPT ![p] = "collected"]
    /\ IF outcome[p] = "raise"
       THEN /\ bpc' = "shutdown"
            /\ UNCHANGED <<enriched_results, stats>>
       ELSE /\ enriched_results' = Append(enriched_results, p)
            /\ stats' = count_status(stats, outcome[p])
            /\ UNCHANGED bpc
    /\ UNCHANGED <<outcome, csv_rows>>

\* the loop is exhausted: the executor is left and append_to_csv(enriched_results) runs
BatchWrite ==
    /\ bpc = "collecting"
    /\ \A p \in Items : fstate[p] = "collected"
    /\ csv_rows' = Len(enriched_results)
    /\ bpc' = "written"
    /\ UNCHANGED <<outcome, fstate, enriched_results, stats>>

\* the exception leaves the `with ThreadPoolExecutor` block, which waits for the running
\* workers, and then main(): the chunk's rows are never appended
BatchRaise ==
    /\ bpc = "shutdown"
    /\ \A p \in Items : fstate[p] # "running"
    /\ bpc' = "raised"
    /\ UNCHANGED <<outcome, fstate, enriched_results, stats, csv_rows>>

InitBatch ==
    /\ site = "gamers" /\ rate_limiter = RateLimiterInit(site)
    /\ fetchIdle /\ limIdle /\ sinkIdle /\ collIdle /\ extIdle
    /\ \E M \in 1..MaxItems : outcome \in [1..M -> Outcomes]
    /\ fstate = [p \in Items |-> "none"]
    /\ enriched_results = <<>> /\ stats = StatsInit /\ bpc = "start" /\ csv_rows = 0

NextBatch ==
    \/ BatchSubmit /\ UNCHANGED <<fetchVars, limVars, sinkVars, collVars, extVars>>
    \/ \E p \in Items : WorkerFinish(p) /\ UNCHANGED <<fetchVars, limVars, sinkVars, collVars, extVars>>
    \/ \E p \in Items : Collect(p) /\ UNCHANGED <<fetchVars, limVars, sinkVars, collVars, extVars>>
    \/ BatchWrite /\ UNCHANGED <<fetchVars, limVars, sinkVars, collVars, extVars>>
    \/ BatchRaise /\ UNCHANGED <<fetchVars, limVars, sinkVars, collVars, extVars>>

SpecBatch == InitBatch /\ [][NextBatch]_vars

BatchEnded == bpc \in {"written", "raised"}

Raising == {p \in Items : outcome[p] = "raise"}

\* C4: a batch of M parcels of which K enrichment calls raise ends with M outcomes
\* collected, the K raising ones (and the ones that returned the ERROR status) counted as
\* errors, the others' rows handed to the sink, and without the batch itself raising.
C4_BatchNeverRaises ==
    BatchEnded =>
        /\ bpc = "written"
        /\ \A p \in Items : fstate[p] = "collected"
        /\ stats.errors = Cardinality({p \in Items : outcome[p] \in {"raise", "ERROR"}})
        /\ Len(enriched_results) = Len(outcome) - Cardinality(Raising)
        /\ csv_rows = Len(enriched_results)

(***************************************************************************)
(* CSV sink: append_to_csv (main.py, Parcel-Centric Real Estate Scraper)   *)
(* and write_rows (temp.py), which are the same code                       *)
(***************************************************************************)
RowIds == {1, 2, 3, 4}

\* the keys of every dict build_row returns (a fixed literal), shortened
RowKeys == <<"regionId", "neighborhoodId", "transactionNumber">>

\* the rows the callers build: dicts that all carry the same keys
Rows == [id : RowIds, keys : {RowKeys}]

\* sequences of at most n elements of S, without repetition
RECURSIVE DistinctSeqs(_, _)
DistinctSeqs(S, n) ==
    IF n = 0 THEN {<<>>}
    ELSE LET shorter == DistinctSeqs(S, n - 1) IN
         shorter \cup {Append(q, x) : q \in {t \in shorter : Len(t) = n - 1},
                                       x \in S}
RowLists == {q \in DistinctSeqs(Rows, MaxRows) :
                \A i, j \in 1..Len(q) : i # j => q[i] # q[j]}

HeaderLine(fieldnames) == [kind |-> "header", id |-> 0, cells |-> fieldnames]

\* DictWriter.writerow: the row's values in the order of fieldnames
RowLine(row, fieldnames) == [kind |-> "row", id |-> row.id, cells |-> fieldnames]

\* an existence test that always says the file is missing
file_exists_never(f) == FALSE

\* `try: open(OUTPUT_FILE, 'r') ... except FileNotFoundError`
file_exists_check(f) == f.exists

\* append_to_csv(new_rows) / write_rows(rows)
append_to_csv(new_rows) ==
    /\ Len(appended) < MaxAppends
    /\ appended' = Append(appended, new_rows)
    /\ IF new_rows = <<>>
       THEN UNCHANGED file
       ELSE LET file_exists == file_exists_check(file)
                fieldnames  == new_rows[1].keys
                written     == [i \in 1..Len(new_rows) |-> RowLine(new_rows[i], fieldnames)]
            IN file' = [exists |-> TRUE,
                        lines  |-> file.lines
                                   \o (IF file_exists THEN <<>> ELSE <<HeaderLine(fieldnames)>>)
                                   \o written]

InitSink ==
    /\ site = "gamers" /\ rate_limiter = RateLimiterInit(site)
    /\ fetchIdle /\ limIdle /\ batchIdle /\ sinkIdle /\ collIdle /\ extIdle

NextSink ==
    \E new_rows \in RowLists :
        append_to_csv(new_rows) /\ UNCHANGED <<fetchVars, limVars, batchVars, collVars, extVars>>

SpecSink == InitSink /\ [][NextSink]_vars

IdsOf(q) == {q[i].id : i \in 1..Len(q)}

\* the sink was called twice, with non-empty row lists that share no row
TwoAppends ==
    /\ Len(appended) = 2
    /\ appended[1] # <<>> /\ appended[2] # <<>>
    /\ IdsOf(appended[1]) \cap IdsOf(appended[2]) = {}

HeaderCount == Cardinality({i \in 1..Len(file.lines) : file.lines[i].kind = "header"})

\* C5: from a non-existent file, two appends of non-empty, non-overlapping row lists
\* leave one header row followed by the rows of the first call and then the rows of
\* the second call; the header appears exactly once.
C5_HeaderOnce ==
    TwoAppends =>
        /\ file.exists
        /\ Len(file.lines) = 1 + Len(appended[1]) + Len(appended[2])
        /\ file.lines[1].kind = "header" /\ file.lines[1].cells = RowKeys
        /\ \A i \in 1..Len(appended[1]) :
              /\ file.lines[1 + i].kind = "row"
              /\ file.lines[1 + i].id = appended[1][i].id
        /\ \A i \in 1..Len(appended[2]) :
              /\ file.lines[1 + Len(appended[1]) + i].kind = "row"
              /\ file.lines[1 + Len(appended[1]) + i].id = appended[2][i].id
        /\ HeaderCount = 1

C5_Witness ==
    /\ TwoAppends
    /\ Len(appended[1]) = 2 /\ Len(appended[2]) = 2
    /\ Len(file.lines) = 5

(***************************************************************************)
(* Listing collectors: get_all_products_from_category (Gamers) and         *)
(* get_products_from_category (Server My Store)                            *)
(***************************************************************************)
PageLimit == 100

\* a URL or href is <<origin, path, query>>; a relative href has the origin ""
BASE_URL == "https://shop.example"

Hrefs == {<<"", "/products/a", "">>,
          <<BASE_URL, "/products/a", "">>,
          <<"", "/products/a", "variant=1">>,
          <<"", "/products/b", "">>}

\* the link hrefs of the cards of one listing page
RECURSIVE SeqsUpTo(_, _)
SeqsUpTo(S, n) ==
    IF n = 0 THEN {<<>>}
    ELSE LET shorter == SeqsUpTo(S, n - 1) IN
         shorter \cup {Append(q, x) : q \in {t \in shorter : Len(t) = n - 1}, x \in S}
CardLists == SeqsUpTo(Hrefs, MaxCards)

\* `BASE_URL + href if not href.startswith('http') else href`
product_url(href) == IF href[1] = "" THEN <<BASE_URL, href[2], href[3]>> ELSE href

\* _parse_product_cards / the card loop: the product URL of each card, in order
parse_product_cards(cards) == [i \in 1..Len(cards) |-> product_url(cards[i])]

\* normalize_product_url: drop the query string, then the BASE_URL prefix
normalize_product_url(url) ==
    LET noquery == <<url[1], url[2], "">> IN
    IF noquery[1] = BASE_URL THEN <<"", noquery[2], "">> ELSE noquery

Range(q) == {q[i] : i \in 1..Len(q)}

\* the elements of q from position i on that are not in seen, each once, in the order
\* of their first occurrence
RECURSIVE FirstOccurrencesFrom(_, _, _)
FirstOccurrencesFrom(q, i, seen) ==
    IF i > Len(q) THEN <<>>
    ELSE IF q[i] \in seen THEN FirstOccurrencesFrom(q, i + 1, seen)
    ELSE <<q[i]>> \o FirstOccurrencesFrom(q, i + 1, seen \cup {q[i]})

\* the elements of q in the order of their first occurrence
FirstOccurrences(q) == FirstOccurrencesFrom(q, 1, {})

\* a return that forgets to remove duplicates
unique_products_raw(products) == products

\* `{p['url']: p for p in all_products}` then list(values()): one entry per URL
unique_products(products) == FirstOccurrences(products)

\* the orders list(set(...)) may give
Orderings(S) == {q \in SeqsUpTo(S, Cardinality(S)) : Range(q) = S /\ Len(q) = Cardinality(S)}

\* a page repeats an item of the pages before it: same URL up to the query string
Repeats(products, more) ==
    {normalize_product_url(u) : u \in Range(products)}
        \cap {normalize_product_url(u) : u \in Range(more)} # {}

\* Gamers: the first page is fetched; a failure returns []; its cards are parsed and
\* the page count n is read from it; with one page the unique products are returned
GamersFirstPage(ok, cards, n) ==
    /\ site = "gamers" /\ cpc = "start"
    /\ IF ~ok
       THEN /\ returned' = <<>> /\ cpc' = "returned"
            /\ UNCHANGED <<all_products, page, num_pages, repeat_seen>>
       ELSE /\ all_products' = parse_product_cards(cards)
            /\ num_pages' = n
            /\ page' = 2
            /\ IF n > 1
               THEN cpc' = "paging" /\ UNCHANGED returned
               ELSE cpc' = "returned"
                    /\ returned' = unique_products(parse_product_cards(cards))
            /\ UNCHANGED repeat_seen

\* Gamers: the result of executor.map for the next page, in page order; a failed page is
\* skipped; after the last page the unique products are returned
GamersNextPage(ok, cards) ==
    /\ site = "gamers" /\ cpc = "paging"
    /\ LET products == IF ok THEN all_products \o parse_product_cards(cards)
                       ELSE all_products
       IN /\ all_products' = products
          /\ repeat_seen' = (repeat_seen \/ (ok /\ Repeats(all_products, parse_product_cards(cards))))
          /\ page' = page + 1
          /\ IF page < num_pages
             THEN cpc' = "paging" /\ UNCHANGED returned
             ELSE cpc' = "returned" /\ returned' = unique_products(products)
    /\ UNCHANGED num_pages

\* the loop with a safety limit that lets one more page through
ServerPage_late(ok, cards, has_next) ==
    /\ site = "server" /\ cpc \in {"start", "paging"}
    /\ LET fetched  == ok /\ cards # <<>>
           products == IF fetched THEN all_products \o parse_product_cards(cards)
                       ELSE all_products
           goes_on  == fetched /\ has_next /\ ~(page > PageLimit)
       IN /\ all_products' = products
          /\ repeat_seen' = (repeat_seen \/ (fetched /\ Repeats(all_products, parse_product_cards(cards))))
          /\ page' = IF fetched /\ has_next THEN page + 1 ELSE page
          /\ IF goes_on
             THEN cpc' = "paging" /\ UNCHANGED returned
             ELSE /\ cpc' = "returned"
                  /\ returned' \in Orderings(Range(unique_products(products)))
    /\ UNCHANGED num_pages

\* Server My Store: one iteration of `while True`; the loop ends at a failed fetch, a page
\* without cards, a page without next link, or past page 100, and list(set(...)) is returned
ServerPage(ok, cards, has_next) ==
    /\ site = "server" /\ cpc \in {"start", "paging"}
    /\ LET fetched  == ok /\ cards # <<>>
           products == IF fetched THEN all_products \o parse_product_cards(cards)
                       ELSE all_products
           goes_on  == fetched /\ has_next /\ ~(page + 1 > PageLimit)
       IN /\ all_products' = products
          /\ repeat_seen' = (repeat_seen \/ (fetched /\ Repeats(all_products, parse_product_cards(cards))))
          /\ page' = IF fetched /\ has_next THEN page + 1 ELSE page
          /\ IF goes_on
             THEN cpc' = "paging" /\ UNCHANGED returned
             ELSE /\ cpc' = "returned"
                  /\ returned' \in Orderings(Range(unique_products(products)))
    /\ UNCHANGED num_pages

InitCollect ==
    /\ site \in Sites /\ rate_limiter = RateLimiterInit(site)
    /\ fetchIdle /\ limIdle /\ batchIdle /\ sinkIdle /\ collIdle /\ extIdle

NextCollect ==
    \/ \E ok \in BOOLEAN, cards \in CardLists, n \in 1..MaxPages :
          GamersFirstPage(ok, cards, n) /\ UNCHANGED <<fetchVars, limVars, batchVars, sinkVars, extVars>>
    \/ \E ok \in BOOLEAN, cards \in CardLists :
          GamersNextPage(ok, cards) /\ UNCHANGED <<fetchVars, limVars, batchVars, sinkVars, extVars>>
    \/ \E ok \in BOOLEAN, cards \in CardLists, has_next \in BOOLEAN :
          /\ has_next => page < MaxPages
          /\ ServerPage(ok, cards, has_next)
          /\ UNCHANGED <<fetchVars, limVars, batchVars, sinkVars, extVars>>

SpecCollect == InitCollect /\ [][NextCollect]_vars

\* the identity keys of the claim: product URLs with the query string stripped
IdentityKeys == {normalize_product_url(u) : u \in Range(all_products)}

\* C6 as stated: when a later page repeats an item of an earlier page, the returned list
\* has one entry per distinct identity key (product URL with the query string stripped),
\* so its length is the number of distinct keys.
C6_OnePerIdentityKey ==
    (cpc = "returned" /\ repeat_seen) => Len(returned) = Cardinality(IdentityKeys)

\* C6 amended: when a later page repeats an item of an earlier page, the returned list
\* has one entry per distinct product URL as parsed from the cards (made absolute, query
\* string kept), so its length is the number of distinct parsed URLs and not the raw
\* number of parsed cards; URLs that differ only in their query string are kept apart.
C6_OnePerProductUrl ==
    (cpc = "returned" /\ repeat_seen) =>
        /\ Len(returned) = Cardinality(Range(all_products))
        /\ Range(returned) = Range(all_products)
        /\ \A i, j \in 1..Len(returned) : i # j => returned[i] # returned[j]

C6_Witness ==
    /\ cpc = "returned"
    /\ repeat_seen
    /\ page > 2
    /\ Len(all_products) > Len(returned)
    /\ Len(returned) = 2

(***************************************************************************)
(* The global RateLimiter called from the worker threads of the detail     *)
(* pool (main(): 3 workers in Gamers, 5 in Server My Store).  Gamers wraps *)
(* each method body in `with self.lock`; Server My Store has no lock, so   *)
(* the reads and writes of its method bodies interleave.                   *)
(***************************************************************************)
Workers == DOMAIN thr

\* the report_* calls fetch_page makes: report_success(), and report_429(delay) with the
\* delay of a first attempt
WorkerCalls ==
    {[op |-> "success", arg |-> 0, pc |-> "call", tmp |-> 0]}
    \cup {[op |-> "429", arg |-> delay_429(h, 0, r), pc |-> "call", tmp |-> 0] :
              h \in {NoHeader, [text |-> "digits", n |-> 0]}, r \in Jitter}

\* limiter states the workers can find: current_delay at base or doubled, success_count
\* fresh or one short of the threshold
RaceStarts(s) ==
    {[current_delay |-> d, last_429_time |-> 0, success_count |-> c] :
        d \in {base_delay(s), 2 * base_delay(s)}, c \in {0, successThreshold - 1}}

\* a worker enters report_success or report_429; `with self.lock` in Gamers
LimEnter(w) ==
    /\ thr[w].pc = "call"
    /\ IF site = "gamers" THEN lock = 0 /\ lock' = w ELSE UNCHANGED lock
    /\ thr' = [thr EXCEPT ![w].pc = IF thr[w].op = "success" THEN "inc_load" ELSE "stamp"]
    /\ UNCHANGED rate_limiter

\* `self.success_count += 1`: the read
IncLoad(w) ==
    /\ thr[w].pc = "inc_load"
    /\ thr' = [thr EXCEPT ![w].tmp = rate_limiter.success_count, ![w].pc = "inc_store"]
    /\ UNCHANGED <<rate_limiter, lock>>

\* `self.success_count += 1`: the write
IncStore(w) ==
    /\ thr[w].pc = "inc_store"
    /\ rate_limiter' = [rate_limiter EXCEPT !.success_count = thr[w].tmp + 1]
    /\ thr' = [thr EXCEPT ![w].pc = "test"]
    /\ UNCHANGED lock

\* `if self.success_count >= 10 and self.current_delay > self.base_delay`
DecayTest(w) ==
    /\ thr[w].pc = "test"
    /\ thr' = [thr EXCEPT ![w].pc =
                  IF rate_limiter.success_count >= successThreshold
                     /\ rate_limiter.current_delay > base_delay(site)
                  THEN "decay_load" ELSE "exit"]
    /\ UNCHANGED <<rate_limiter, lock>>

\* `max(self.base_delay, self.current_delay * 0.9)`: the argument is read before the call
DecayLoad(w) ==
    /\ thr[w].pc = "decay_load"
    /\ thr' = [thr EXCEPT ![w].tmp = rate_limiter.current_delay, ![w].pc = "decay_store"]
    /\ UNCHANGED <<rate_limiter, lock>>

\* `self.current_delay = max(...)`: the write
DecayStore(w) ==
    /\ thr[w].pc = "decay_store"
    /\ rate_limiter' = [rate_limiter EXCEPT !.current_delay =
                           Max(base_delay(site), (thr[w].tmp * DecayNum) \div DecayDen)]
    /\ thr' = [thr EXCEPT ![w].pc = "reset"]
    /\ UNCHANGED lock

\* `self.success_count = 0`, the last statement of both methods' updating branches
CountReset(w) ==
    /\ thr[w].pc = "reset"
    /\ rate_limiter' = [rate_limiter EXCEPT !.success_count = 0]
    /\ thr' = [thr EXCEPT ![w].pc = "exit"]
    /\ UNCHANGED lock

\* `self.last_429_time = time.time()`; the timestamp of worker w's call is w
Stamp429(w) ==
    /\ thr[w].pc = "stamp"
    /\ rate_limiter' = [rate_limiter EXCEPT !.last_429_time = w]
    /\ thr' = [thr EXCEPT ![w].pc = "hint"]
    /\ UNCHANGED lock

\* `if retry_after: self.current_delay = min(self.max_delay, retry_after + 1)`, or the
\* read of current_delay for the doubling
Hint429(w) ==
    /\ thr[w].pc = "hint"
    /\ IF thr[w].arg # 0
       THEN /\ rate_limiter' = [rate_limiter EXCEPT !.current_delay =
                                    Min(max_delay(site), thr[w].arg + 1000)]
            /\ thr' = [thr EXCEPT ![w].pc = "reset"]
       ELSE /\ thr' = [thr EXCEPT ![w].tmp = rate_limiter.current_delay,
                                   ![w].pc = "double_store"]
            /\ UNCHANGED rate_limiter
    /\ UNCHANGED lock

\* `self.current_delay = min(self.max_delay, self.current_delay * 2)`: the write
DoubleStore(w) ==
    /\ thr[w].pc = "double_store"
    /\ rate_limiter' = [rate_limiter EXCEPT !.current_delay =
                           Min(max_delay(site), thr[w].tmp * 2)]
    /\ thr' = [thr EXCEPT ![w].pc = "reset"]
    /\ UNCHANGED lock

\* the method returns; the `with` block releases the lock in Gamers
LimExit(w) ==
    /\ thr[w].pc = "exit"
    /\ IF site = "gamers" THEN lock' = 0 ELSE UNCHANGED lock
    /\ thr' = [thr EXCEPT ![w].pc = "done"]
    /\ UNCHANGED rate_limiter

raceFrame ==
    UNCHANGED <<site, PAGE_CACHE, CACHE_HITS, CACHE_MISSES, pc, call, calls, net_gets,
                cached_ok, pre, race_start, limVars, batchVars, sinkVars, collVars,
                lcVars, wrVars, bfVars, runVars, moreVars>>

InitRace ==
    /\ site \in Sites
    /\ race_start \in RaceStarts(site)
    /\ rate_limiter = race_start
    /\ fetchIdle /\ limIdle /\ batchIdle /\ sinkIdle /\ collIdle /\ lcIdle /\ wrIdle /\ bfIdle /\ runIdle /\ moreIdle
    /\ thr \in [1..MaxWorkers -> WorkerCalls]
    /\ lock = 0

NextRace ==
    \/ \E w \in Workers : LimEnter(w) /\ raceFrame
    \/ \E w \in Workers : IncLoad(w) /\ raceFrame
    \/ \E w \in Workers : IncStore(w) /\ raceFrame
    \/ \E w \in Workers : DecayTest(w) /\ raceFrame
    \/ \E w \in Workers : DecayLoad(w) /\ raceFrame
    \/ \E w \in Workers : DecayStore(w) /\ raceFrame
    \/ \E w \in Workers : CountReset(w) /\ raceFrame
    \/ \E w \in Workers : Stamp429(w) /\ raceFrame
    \/ \E w \in Workers : Hint429(w) /\ raceFrame
    \/ \E w \in Workers : DoubleStore(w) /\ raceFrame
    \/ \E w \in Workers : LimExit(w) /\ raceFrame

SpecRace == InitRace /\ [][NextRace]_vars

\* the limiter after the workers' calls made one after the other in the given order
RECURSIVE ApplyCalls(_, _)
ApplyCalls(order, rl) ==
    IF order = <<>> THEN rl
    ELSE LET w     == order[1]
             after == IF thr[w].op = "success"
                      THEN report_success(rl, site)
                      ELSE report_429(rl, site, thr[w].arg, w)
         IN ApplyCalls(Tail(order), after)

SequentialOutcomes == {ApplyCalls(o, race_start) : o \in Orderings(Workers)}

\* what is compared: the delay, the counter, and whether a 429 was stamped (the values
\* time.time() returns differ from one run to another)
Compared(rl) ==
    [current_delay |-> rl.current_delay, success_count |-> rl.success_count,
     stamped |-> rl.last_429_time # 0]

RaceDone == Workers # {} /\ \A w \in Workers : thr[w].pc = "done"

\* C13: whatever the interleaving of the workers' report_success and report_429 calls,
\* the limiter's final current_delay, success_count and last_429_time are those of some
\* sequential order of the calls: no increment and no delay update is lost.
C13_Serializable ==
    RaceDone => Compared(rate_limiter) \in {Compared(rl) : rl \in SequentialOutcomes}

(***************************************************************************)
(* LimitedCache.set called from the pool's worker threads                  *)
(* (fetch_consolidated_transactions, fetch_parcel_metrics).  The class has *)
(* no lock: the statements of set() interleave.                            *)
(***************************************************************************)
\* dict `d[k] = v` and `d.pop(k, None)`
dict_set(d, k, v) == [x \in (DOMAIN d) \cup {k} |-> IF x = k THEN v ELSE d[x]]
dict_pop(d, k)    == [x \in (DOMAIN d) \ {k} |-> d[x]]

\* deque.remove(k): the first occurrence of k is dropped
RECURSIVE deque_remove(_, _)
deque_remove(q, k) ==
    IF q = <<>> THEN <<>>
    ELSE IF Head(q) = k THEN Tail(q)
    ELSE <<Head(q)>> \o deque_remove(Tail(q), k)

\* a set() that leaves the position of a key already present as it is
limited_cache_set_fifo(c, key, value) ==
    LET evicts == key \notin DOMAIN c.cache /\ Cardinality(DOMAIN c.cache) >= MaxCacheSize
                  /\ c.access_order # <<>>
        cache1 == IF evicts THEN dict_pop(c.cache, Head(c.access_order)) ELSE c.cache
        order1 == IF evicts THEN Tail(c.access_order) ELSE c.access_order
    IN [cache |-> dict_set(cache1, key, value),
        access_order |-> IF key \in Range(order1) THEN order1 ELSE Append(order1, key)]

\* LimitedCache.set(key, value), run without interruption
limited_cache_set(c, key, value) ==
    LET evicts == key \notin DOMAIN c.cache /\ Cardinality(DOMAIN c.cache) >= MaxCacheSize
                  /\ c.access_order # <<>>
        cache1 == IF evicts THEN dict_pop(c.cache, Head(c.access_order)) ELSE c.cache
        order1 == IF evicts THEN Tail(c.access_order) ELSE c.access_order
        order2 == IF key \in Range(order1) THEN deque_remove(order1, key) ELSE order1
    IN [cache |-> dict_set(cache1, key, value), access_order |-> Append(order2, key)]

\* the keys already cached when the batch starts are 11, 12, ...; worker w sets key w
\* (the keys of one batch are distinct: discovered_list comes from a set)
CacheOfSize(m) ==
    [cache |-> [k \in {10 + i : i \in 1..m} |-> "cached"],
     access_order |-> [i \in 1..m |-> 10 + i]]

LcWorkers == DOMAIN lc_thr

\* `if key not in self.cache and len(self.cache) >= self.max_size`
LcCheck(w) ==
    /\ lc_thr[w].pc = "check"
    /\ lc_thr' = [lc_thr EXCEPT ![w].pc =
                     IF lc_thr[w].key \notin DOMAIN lc.cache
                        /\ Cardinality(DOMAIN lc.cache) >= MaxCacheSize
                     THEN "popleft" ELSE "store"]
    /\ UNCHANGED lc

\* `if self.access_order: old_key = self.access_order.popleft()`
LcPopLeft(w) ==
    /\ lc_thr[w].pc = "popleft"
    /\ IF lc.access_order # <<>>
       THEN /\ lc' = [lc EXCEPT !.access_order = Tail(@)]
            /\ lc_thr' = [lc_thr EXCEPT ![w].old_key = Head(lc.access_order),
                                         ![w].pc = "pop"]
       ELSE /\ lc_thr' = [lc_thr EXCEPT ![w].pc = "store"]
            /\ UNCHANGED lc

\* `self.cache.pop(old_key, None)`
LcPop(w) ==
    /\ lc_thr[w].pc = "pop"
    /\ lc' = [lc EXCEPT !.cache = dict_pop(@, lc_thr[w].old_key)]
    /\ lc_thr' = [lc_thr EXCEPT ![w].pc = "store"]

\* `self.cache[key] = value`
LcStore(w) ==
    /\ lc_thr[w].pc = "store"
    /\ lc' = [lc EXCEPT !.cache = dict_set(@, lc_thr[w].key, "fetched")]
    /\ lc_thr' = [lc_thr EXCEPT ![w].pc = "reorder"]

\* `if key in self.access_order: self.access_order.remove(key)`
LcReorder(w) ==
    /\ lc_thr[w].pc = "reorder"
    /\ lc' = [lc EXCEPT !.access_order =
                 IF lc_thr[w].key \in Range(@) THEN deque_remove(@, lc_thr[w].key) ELSE @]
    /\ lc_thr' = [lc_thr EXCEPT ![w].pc = "append"]

\* `self.access_order.append(key)`
LcAppend(w) ==
    /\ lc_thr[w].pc = "append"
    /\ lc' = [lc EXCEPT !.access_order = Append(@, lc_thr[w].key)]
    /\ lc_thr' = [lc_thr EXCEPT ![w].pc = "done"]

lcFrame == UNCHANGED <<coreVars, raceVars, lc_start, lc_seq, wrVars, bfVars, runVars, moreVars>>

InitLc ==
    /\ site = "gamers" /\ rate_limiter = RateLimiterInit(site)
    /\ fetchIdle /\ limIdle /\ batchIdle /\ sinkIdle /\ collIdle /\ raceIdle /\ wrIdle /\ bfIdle /\ runIdle /\ moreIdle
    /\ lc_start \in {CacheOfSize(m) : m \in 0..MaxCacheSize}
    /\ lc = lc_start
    /\ lc_seq = LcSeqIdle
    /\ \E n \in 1..MaxWorkers :
          lc_thr = [w \in 1..n |-> [key |-> w, pc |-> "check", old_key |-> 0]]

NextLc ==
    \/ \E w \in LcWorkers : LcCheck(w) /\ lcFrame
    \/ \E w \in LcWorkers : LcPopLeft(w) /\ lcFrame
    \/ \E w \in LcWorkers : LcPop(w) /\ lcFrame
    \/ \E w \in LcWorkers : LcStore(w) /\ lcFrame
    \/ \E w \in LcWorkers : LcReorder(w) /\ lcFrame
    \/ \E w \in LcWorkers : LcAppend(w) /\ lcFrame

SpecLc == InitLc /\ [][NextLc]_vars

\* the cache after the workers' set() calls made one after the other in the given order
RECURSIVE ApplySets(_, _)
ApplySets(order, c) ==
    IF order = <<>> THEN c
    ELSE ApplySets(Tail(order), limited_cache_set(c, lc_thr[order[1]].key, "fetched"))

LcSequentialOutcomes == {ApplySets(o, lc_start) : o \in Orderings(LcWorkers)}

LcDone == LcWorkers # {} /\ \A w \in LcWorkers : lc_thr[w].pc = "done"

\* C14: whatever the interleaving of the workers' set() calls, the LimitedCache ends in
\* a state that some sequential order of the calls produces, its key set is the set of
\* keys in access_order, and its size is at most max_size.
C14_CacheSerializable ==
    LcDone =>
        /\ lc \in LcSequentialOutcomes
        /\ DOMAIN lc.cache = Range(lc.access_order)
        /\ Cardinality(DOMAIN lc.cache) <= MaxCacheSize

(***************************************************************************)
(* Who appends to an output CSV.  Gamers main(): the pool's threads return *)
(* the scraped details and the main thread writes each row.                *)
(* filter_tires_updated.py: every process of the Pool runs                 *)
(* batch_crawl_listing, whose parse_listing_result appends to TIRE_URLS.   *)
(***************************************************************************)
Scripts == {"gamers", "tires"}

\* the columns main() declares (shortened), and those of the tire listing frame
GamersFields == <<"ID", "Type", "SKU">>
TireFields   == <<"width", "height", "rim", "url", "listing_url">>

WrWorkers == DOMAIN wr

\* Gamers: a pool thread ends scrape_product_details, returning the details or None
GamersWorkerReturn(w, ok) ==
    /\ script = "gamers"
    /\ wr[w].pc = "scraping"
    /\ wr' = [wr EXCEPT ![w].pc = "finished", ![w].saw = ok]
    /\ UNCHANGED <<file, wr_writers>>

\* Gamers: the main thread takes a completed future; `if details:` writerow and flush
GamersCoordinatorWrite(w) ==
    /\ script = "gamers"
    /\ wr[w].pc = "finished"
    /\ wr' = [wr EXCEPT ![w].pc = "collected"]
    /\ IF wr[w].saw
       THEN /\ file' = [file EXCEPT !.lines = Append(@, [kind |-> "row", id |-> w,
                                                          cells |-> GamersFields])]
            /\ wr_writers' = wr_writers \cup {0}
       ELSE UNCHANGED <<file, wr_writers>>

\* tires: a pool process has crawled a listing and evaluates
\* `header=not os.path.exists(TIRE_URLS)`, the argument of to_csv
TiresExistsCheck(w) ==
    /\ script = "tires"
    /\ wr[w].pc = "scraping"
    /\ wr' = [wr EXCEPT ![w].pc = "checked", ![w].saw = file.exists]
    /\ UNCHANGED <<file, wr_writers>>

\* tires: df.to_csv(TIRE_URLS, mode="a", header=...) appends the header, if asked for,
\* and the listing's rows; the process goes on with the next listing of its batch
TiresAppend(w) ==
    /\ script = "tires"
    /\ wr[w].pc = "checked"
    /\ file' = [exists |-> TRUE,
                lines  |-> file.lines
                           \o (IF wr[w].saw THEN <<>> ELSE <<HeaderLine(TireFields)>>)
                           \o <<[kind |-> "row", id |-> w, cells |-> TireFields]>>]
    /\ wr_writers' = wr_writers \cup {w}
    /\ wr' = [wr EXCEPT ![w].left = @ - 1,
                         ![w].pc = IF wr[w].left > 1 THEN "scraping" ELSE "collected"]

wrFrame == UNCHANGED <<fetchVars, limVars, batchVars, appended, collVars, raceVars, lcVars,
                       script, bfVars, runVars, moreVars>>

\* Gamers: the file was just opened with 'w' and the header written; tires: the file is
\* absent, or left by an earlier run
InitWriters ==
    /\ site = "gamers" /\ rate_limiter = RateLimiterInit(site)
    /\ fetchIdle /\ limIdle /\ batchIdle /\ collIdle /\ raceIdle /\ lcIdle /\ bfIdle /\ runIdle /\ moreIdle
    /\ appended = <<>>
    /\ script \in Scripts
    /\ wr_writers = {}
    /\ IF script = "gamers"
       THEN /\ file = [exists |-> TRUE, lines |-> <<HeaderLine(GamersFields)>>]
            /\ \E n \in 1..(MaxWorkers + 1) :
                  wr = [w \in 1..n |-> [pc |-> "scraping", left |-> 1, saw |-> FALSE]]
       ELSE /\ file \in {[exists |-> FALSE, lines |-> <<>>],
                          [exists |-> TRUE, lines |-> <<HeaderLine(TireFields)>>]}
            /\ \E n \in 1..MaxWorkers :
                  wr \in [1..n -> {[pc |-> "scraping", left |-> k, saw |-> FALSE] :
                                      k \in 1..MaxBatch}]

NextWriters ==
    \/ \E w \in WrWorkers, ok \in BOOLEAN : GamersWorkerReturn(w, ok) /\ wrFrame
    \/ \E w \in WrWorkers : GamersCoordinatorWrite(w) /\ wrFrame
    \/ \E w \in WrWorkers : TiresExistsCheck(w) /\ wrFrame
    \/ \E w \in WrWorkers : TiresAppend(w) /\ wrFrame

SpecWriters == InitWriters /\ [][NextWriters]_vars

\* the pool workers that are between the existence check and the write
InWriteSection == {w \in WrWorkers : wr[w].pc = "checked"}

FetchOutcomes == {"found", "failed", "raise"}

FutureInit == [state |-> "none", out |-> "none", subs |-> 0, how |-> "none"]

BfKeys == Range(bf_items)

\* a failure handler that leaves the cache alone
cache_failure_skip(c, key) == c

\* `transaction_details_cache.set(tx_number, {})`
cache_failure(c, key) == limited_cache_set(c, key, "empty")

\* `batch = to_fetch[i:i + BATCH_SIZE]`
chunk_of(b) == SubSeq(b.to_fetch, b.i + 1, Min(b.i + MaxChunk, Len(b.to_fetch)))

\* a timeout handler that marks nothing
mark_remaining_none(batch, st) == st

\* the handler of the as_completed timeout: `for tx_num in batch: if tx_num not in
\* results:` the empty default goes to the cache and to results
RECURSIVE mark_remaining(_, _)
mark_remaining(batch, st) ==
    IF batch = <<>> THEN st
    ELSE LET k   == Head(batch)
             st1 == IF k \in DOMAIN st.results THEN st
                    ELSE [results |-> dict_set(st.results, k, "empty"),
                          cache   |-> cache_failure(st.cache, k)]
         IN mark_remaining(Tail(batch), st1)

\* the keys whose fetch failed in the call that is ending
FailedNow ==
    {p \in DOMAIN bf_fut :
        \/ bf_fut[p].how \in {"exception", "timeout"}
        \/ bf_fut[p].how = "result" /\ bf_fut[p].out = "failed"}

\* the call up to the pool: cached items go to results, the others to to_fetch
BfCall ==
    /\ bf.pc \in {"idle", "returned"}
    /\ bf_calls < MaxBfCalls
    /\ bf_calls' = bf_calls + 1
    /\ bf_prev' = bf_prev \cup FailedNow
    /\ bf_fut' = [p \in BfKeys |-> FutureInit]
    /\ LET cached   == {k \in BfKeys : k \in DOMAIN lc.cache}
           to_fetch == SelectSeq(bf_items, LAMBDA k : k \notin DOMAIN lc.cache)
       IN bf' = [pc |-> IF to_fetch = <<>> THEN "returned" ELSE "submit",
                 results |-> [k \in cached |-> lc.cache[k]],
                 to_fetch |-> to_fetch, i |-> 0]
    /\ UNCHANGED lc

\* `executor.submit(fetch_transaction_details, region_id, tx_num)` for the batch
BfSubmit ==
    /\ bf.pc = "submit"
    /\ bf_fut' = [p \in DOMAIN bf_fut |->
                     IF p \in Range(chunk_of(bf))
                     THEN [bf_fut[p] EXCEPT !.state = "running", !.subs = @ + 1]
                     ELSE bf_fut[p]]
    /\ bf' = [bf EXCEPT !.pc = "collecting"]
    /\ UNCHANGED <<lc, bf_calls, bf_prev>>

\* a pool thread ends its fetch
BfWorkerFinish(p, out) ==
    /\ bf_fut[p].state = "running"
    /\ bf_fut' = [bf_fut EXCEPT ![p].state = "finished", ![p].out = out]
    /\ UNCHANGED <<lc, bf, bf_calls, bf_prev>>

\* one iteration of `for future in as_completed(future_to_tx, timeout=45)`
BfCollect(p) ==
    /\ bf.pc = "collecting"
    /\ bf_fut[p].state = "finished"
    /\ IF bf_fut[p].out = "raise"
       THEN /\ lc' = cache_failure(lc, p)
            /\ bf' = [bf EXCEPT !.results = dict_set(@, p, "empty")]
            /\ bf_fut' = [bf_fut EXCEPT ![p].state = "collected", ![p].how = "exception"]
       ELSE LET details == IF bf_fut[p].out = "found" THEN "details" ELSE "empty" IN
            /\ lc' = limited_cache_set(lc, p, details)
            /\ bf' = [bf EXCEPT !.results = dict_set(@, p, details)]
            /\ bf_fut' = [bf_fut EXCEPT ![p].state = "collected", ![p].how = "result"]
    /\ UNCHANGED <<bf_calls, bf_prev>>

\* as_completed raises TimeoutError while futures of the batch are still running
BfTimeout ==
    /\ bf.pc = "collecting"
    /\ \E p \in Range(chunk_of(bf)) : bf_fut[p].state = "running"
    /\ LET st == mark_remaining(chunk_of(bf), [results |-> bf.results, cache |-> lc]) IN
          /\ lc' = st.cache
          /\ bf' = [bf EXCEPT !.results = st.results, !.pc = "closing"]
    /\ bf_fut' = [p \in DOMAIN bf_fut |->
                     IF p \in Range(chunk_of(bf)) /\ p \notin DOMAIN bf.results
                     THEN [bf_fut[p] EXCEPT !.how = "timeout"]
                     ELSE bf_fut[p]]
    /\ UNCHANGED <<bf_calls, bf_prev>>

\* the `with ThreadPoolExecutor` block is left (it waits for the running workers): the
\* next batch, or `return results`
BfChunkEnd ==
    /\ \/ bf.pc = "collecting"
          /\ \A p \in Range(chunk_of(bf)) : bf_fut[p].state = "collected"
       \/ bf.pc = "closing"
          /\ \A p \in Range(chunk_of(bf)) : bf_fut[p].state # "running"
    /\ bf' = [bf EXCEPT !.i = @ + MaxChunk,
                         !.pc = IF bf.i + MaxChunk < Len(bf.to_fetch)
                                THEN "submit" ELSE "returned"]
    /\ UNCHANGED <<lc, bf_fut, bf_calls, bf_prev>>

bfFrame == UNCHANGED <<coreVars, raceVars, lc_thr, lc_start, lc_seq, wrVars, bf_items, runVars, moreVars>>

\* the cache is empty or already holds the first item; the keys passed are distinct and
\* fewer than max_size
InitBf ==
    /\ site = "gamers" /\ rate_limiter = RateLimiterInit(site)
    /\ fetchIdle /\ limIdle /\ batchIdle /\ sinkIdle /\ collIdle /\ raceIdle /\ wrIdle /\ runIdle /\ moreIdle
    /\ lc_thr = <<>> /\ lc_start = EmptyCache /\ lc_seq = LcSeqIdle
    /\ lc \in {EmptyCache, [cache |-> [k \in {1} |-> "details"], access_order |-> <<1>>]}
    /\ bf_items \in {[i \in 1..n |-> i] : n \in 1..MaxCacheSize}
    /\ bf = BfIdleCall /\ bf_fut = <<>> /\ bf_calls = 0 /\ bf_prev = {}

NextBf ==
    \/ BfCall /\ bfFrame
    \/ BfSubmit /\ bfFrame
    \/ \E p \in DOMAIN bf_fut, out \in FetchOutcomes : BfWorkerFinish(p, out) /\ bfFrame
    \/ \E p \in DOMAIN bf_fut : BfCollect(p) /\ bfFrame
    \/ BfTimeout /\ bfFrame
    \/ BfChunkEnd /\ bfFrame

SpecBf == InitBf /\ [][NextBf]_vars

\* C16: every work item passed to a batch fetch is submitted to the pool at most once
\* and has its entry in the returned results map, also when its worker raised and when
\* the as_completed timeout expired before it finished.
C16_OneEntryPerItem ==
    /\ \A p \in DOMAIN bf_fut : bf_fut[p].subs <= 1
    /\ bf.pc = "returned" =>
           /\ DOMAIN bf.results = BfKeys
           /\ \A p \in DOMAIN bf_fut :
                  bf_fut[p].how \in {"exception", "timeout"} => bf.results[p] = "empty"

C16_Witness ==
    /\ bf.pc = "returned"
    /\ Len(bf_items) = 3
    /\ \E p, q \in BfKeys : bf_fut[p].how = "timeout" /\ bf_fut[q].how = "exception"
    /\ DOMAIN bf.results = BfKeys

\* C18 as stated: a cache entry is created only by a successful fetch: after a fetch
\* that failed (exception, failed request, batch timeout) the cache has no entry for
\* the key, and a later request for the key issues a new network call.
C18_NoEntryAfterFailure ==
    /\ \A p \in FailedNow : p \notin DOMAIN lc.cache
    /\ (bf_calls = 2 /\ bf.pc = "returned") => \A p \in bf_prev : bf_fut[p].subs = 1

\* C18 amended: a fetch that failed (the worker raised, its request failed, or the batch
\* timed out) also creates a cache entry: the cache then holds the empty default for the
\* key, and a later request for the key returns the stored default without a new
\* network call; a fetch that succeeded stores the fetched value.
C18_FailureIsCached ==
    /\ \A p \in FailedNow : p \in DOMAIN lc.cache /\ lc.cache[p] = "empty"
    /\ \A p \in DOMAIN bf_fut :
           (bf_fut[p].how = "result" /\ bf_fut[p].out = "found") =>
               p \in DOMAIN lc.cache /\ lc.cache[p] = "details"
    /\ (bf_calls = 2) =>
           \A p \in bf_prev : /\ bf_fut[p].subs = 0
                               /\ p \in DOMAIN bf.results /\ bf.results[p] = "empty"

C18_Witness ==
    /\ bf_calls = 2 /\ bf.pc = "returned"
    /\ \E p \in bf_prev : bf.results[p] = "empty" /\ lc.cache[p] = "empty"
    /\ \E q \in BfKeys \ bf_prev : bf.results[q] = "details"

(***************************************************************************)
(* append_to_csv called with row dicts of either of two key sets           *)
(***************************************************************************)
\* the keys of the row dicts another builder makes (the main loop of geometry.py),
\* shortened
AltKeys == <<"regionId", "provinceName", "geometry">>

KeyLists == {RowKeys, AltKeys}

\* row lists whose dicts all carry the same keys, one key set or the other
SchemaRowLists ==
    {q \in DistinctSeqs([id : {1, 2}, keys : KeyLists], MaxRows) :
        /\ \A i, j \in 1..Len(q) : i # j => q[i] # q[j]
        /\ \A i, j \in 1..Len(q) : q[i].keys = q[j].keys}

NextSchema ==
    \E new_rows \in SchemaRowLists :
        append_to_csv(new_rows) /\ UNCHANGED <<fetchVars, limVars, batchVars, collVars, extVars>>

SpecSchema == InitSink /\ [][NextSchema]_vars

\* C19: the header the sink writes on the first append comes from a fixed, declared
\* schema and not from the keys of the first row: whatever the keys of the first
\* batch's rows, the header is the same.
C19_HeaderFromFixedSchema ==
    file.exists =>
        /\ file.lines[1].kind = "header"
        /\ file.lines[1].cells = RowKeys

(***************************************************************************)
(* A whole run and its interruption: main.py (process_region and the main  *)
(* loop), geometry.py (the module's main loop), Gamers scraper.py (main)   *)
(***************************************************************************)
RunScripts == {"main", "geometry", "gamers"}

\* the row the run builds next (build_row / the dict literal / details)
NewRow == [id |-> run.n + 1, keys |-> RowKeys]

LinesOf(rows, fieldnames) == [i \in 1..Len(rows) |-> RowLine(rows[i], fieldnames)]

runFrame == UNCHANGED <<fetchVars, limVars, batchVars, collVars, raceVars, lcVars, wrVars,
                        bfVars, run_script, moreVars>>

\* Gamers opens the CSV with 'w' and writes the header before the pool starts; the two
\* Suhail scripts open nothing before their loop
RunStart ==
    /\ run.pc = "start"
    /\ run' = [run EXCEPT !.pc = "loop"]
    /\ IF run_script = "gamers"
       THEN file' = [exists |-> TRUE, lines |-> <<HeaderLine(RowKeys)>>]
       ELSE UNCHANGED file
    /\ UNCHANGED appended
    /\ runFrame

\* one page of the region in progress gives a row: main.py appends it to region_rows,
\* geometry.py to the module's rows
RunBuildRow ==
    /\ run.pc = "loop" /\ run_script \in {"main", "geometry"}
    /\ run.batch <= MaxRegions /\ Len(run.cur) < MaxRows
    /\ run' = [run EXCEPT !.cur = Append(@, NewRow), !.n = @ + 1,
                          !.rows = IF run_script = "geometry" THEN Append(@, NewRow) ELSE @]
    /\ UNCHANGED sinkVars
    /\ runFrame

\* the region in progress ends: process_region appends region_rows to the CSV (if any)
\* and returns; geometry.py's loop just moves to the next region
RunEndRegion ==
    /\ run.pc = "loop" /\ run_script \in {"main", "geometry"}
    /\ run.batch <= MaxRegions
    /\ run' = [run EXCEPT !.completed = Append(@, run.cur), !.cur = <<>>, !.batch = @ + 1]
    /\ IF run_script = "main" /\ run.cur # <<>>
       THEN append_to_csv(run.cur)
       ELSE UNCHANGED sinkVars
    /\ runFrame

\* main.py: process_region raises an Exception; the main loop prints it and continues
\* with the next region
RunRegionFails ==
    /\ run.pc = "loop" /\ run_script = "main"
    /\ run.batch <= MaxRegions
    /\ run' = [run EXCEPT !.cur = <<>>, !.batch = @ + 1]
    /\ UNCHANGED sinkVars
    /\ runFrame

\* Gamers: as_completed yields the future of a product; the main thread writes the row
\* of its details, if any, and flushes
RunProductDone(details) ==
    /\ run.pc = "loop" /\ run_script = "gamers"
    /\ run.batch <= MaxRegions
    /\ IF details
       THEN /\ run' = [run EXCEPT !.completed = Append(@, <<NewRow>>), !.n = @ + 1,
                                  !.batch = @ + 1]
            /\ file' = [file EXCEPT !.lines = Append(@, RowLine(NewRow, RowKeys))]
       ELSE /\ run' = [run EXCEPT !.completed = Append(@, <<>>), !.batch = @ + 1]
            /\ UNCHANGED file
    /\ UNCHANGED appended
    /\ runFrame

\* the loop is over: geometry.py now opens the CSV with 'w' and writes the header and all
\* the rows, if there are rows; the other two have nothing left to write
RunFinish ==
    /\ run.pc = "loop" /\ run.batch = MaxRegions + 1
    /\ run' = [run EXCEPT !.pc = "done"]
    /\ IF run_script = "geometry" /\ run.rows # <<>>
       THEN file' = [exists |-> TRUE,
                     lines  |-> <<HeaderLine(run.rows[1].keys)>>
                                \o LinesOf(run.rows, run.rows[1].keys)]
       ELSE UNCHANGED file
    /\ UNCHANGED appended
    /\ runFrame

\* KeyboardInterrupt or a crash anywhere in the loop: the process' memory is gone;
\* main.py catches it and breaks, the other two end with the traceback
RunInterrupt ==
    /\ run.pc = "loop"
    /\ run' = [run EXCEPT !.pc = "interrupted", !.cur = <<>>, !.rows = <<>>]
    /\ UNCHANGED sinkVars
    /\ runFrame

InitRun ==
    /\ site = "gamers" /\ rate_limiter = RateLimiterInit(site)
    /\ fetchIdle /\ limIdle /\ batchIdle /\ sinkIdle /\ collIdle
    /\ raceIdle /\ lcIdle /\ wrIdle /\ bfIdle /\ moreIdle
    /\ run_script \in RunScripts
    /\ run = RunIdle

NextRun ==
    \/ RunStart
    \/ RunBuildRow
    \/ RunEndRegion
    \/ RunRegionFails
    \/ \E details \in BOOLEAN : RunProductDone(details)
    \/ RunFinish
    \/ RunInterrupt

SpecRun == InitRun /\ [][NextRun]_vars

InFile(row) == \E k \in 1..Len(file.lines) : file.lines[k].kind = "row" /\ file.lines[k].id = row.id

\* C20: when the run is interrupted, every row of every batch completed before the
\* interrupt is in the output CSV; only rows of the batch in flight can be lost.
C20_CompletedBatchesKept ==
    run.pc = "interrupted" =>
        \A b \in 1..Len(run.completed) :
            \A i \in 1..Len(run.completed[b]) : InFile(run.completed[b][i])

(***************************************************************************)
(* LimitedCache.set called in sequence by one thread                       *)
(***************************************************************************)
SetKeys == 1..(MaxCacheSize + 1)

\* cache.set(key, value); lc_seq notes, for each key present, the call that brought it in
\* and the last call that set it
LcSet(key) ==
    /\ lc_seq.ops < MaxCacheSize + MaxSets
    /\ lc' = limited_cache_set(lc, key, "fetched")
    /\ lc_seq' = [ops    |-> lc_seq.ops + 1,
                  key    |-> key,
                  before |-> [keys |-> DOMAIN lc.cache, ins_at |-> lc_seq.ins_at,
                              set_at |-> lc_seq.set_at],
                  ins_at |-> [k \in DOMAIN lc'.cache |->
                                 IF k \in DOMAIN lc.cache THEN lc_seq.ins_at[k]
                                 ELSE lc_seq.ops + 1],
                  set_at |-> [k \in DOMAIN lc'.cache |->
                                 IF k = key \/ k \notin DOMAIN lc.cache THEN lc_seq.ops + 1
                                 ELSE lc_seq.set_at[k]]]
    /\ UNCHANGED <<coreVars, raceVars, lc_thr, lc_start, wrVars, bfVars, runVars, moreVars>>

InitLcSeq ==
    /\ site = "gamers" /\ rate_limiter = RateLimiterInit(site)
    /\ fetchIdle /\ limIdle /\ batchIdle /\ sinkIdle /\ collIdle /\ extIdle

NextLcSeq == \E key \in SetKeys : LcSet(key)

SpecLcSeq == InitLcSeq /\ [][NextLcSeq]_vars

\* the entries the last set() call removed
Evicted == lc_seq.before.keys \ DOMAIN lc.cache

FullBefore == Cardinality(lc_seq.before.keys) >= MaxCacheSize

\* C21 (as stated): the cache never holds more than max_size entries, and a set() of a
\* new key on a full cache evicts the one entry inserted earliest among those present.
C21_EvictsEarliestInserted ==
    /\ Cardinality(DOMAIN lc.cache) <= MaxCacheSize
    /\ Cardinality(Evicted) <= 1
    /\ \A k \in Evicted : \A j \in lc_seq.before.keys :
          lc_seq.before.ins_at[k] <= lc_seq.before.ins_at[j]

\* C21 (amended): the cache never holds more than max_size entries; a set() evicts
\* exactly when its key is new and the cache is full, and then the one entry evicted is
\* the one set longest ago (a set() of a present key counts as a fresh set of it).
C21_EvictsLeastRecentlySet ==
    /\ Cardinality(DOMAIN lc.cache) <= MaxCacheSize
    /\ Cardinality(Evicted) <= 1
    /\ lc_seq.ops > 0 =>
          (Evicted # {} <=> (lc_seq.key \notin lc_seq.before.keys /\ FullBefore))
    /\ \A k \in Evicted : \A j \in lc_seq.before.keys :
          lc_seq.before.set_at[k] <= lc_seq.before.set_at[j]

\* a full cache one of whose keys was set again evicts an entry that is not the one
\* inserted earliest
C21_Witness ==
    /\ FullBefore
    /\ \E k \in Evicted : \E j \in lc_seq.before.keys :
          lc_seq.before.ins_at[j] < lc_seq.before.ins_at[k]

(***************************************************************************)
(* Parcel-Centric All Parcels main.py: the main loop writes the            *)
(* transactions each future returns to OUTPUT_TRANSACTIONS_FILE (`file`)   *)
(***************************************************************************)
\* the keys a transaction of the API can carry (shortened); fetch_details adds
\* parcelObjectId to every one
TxKeyOrder == <<"transactionNumber", "transactionPrice", "parcelObjectId">>

TxKeySets == {{"transactionNumber", "parcelObjectId"},
              {"transactionNumber", "transactionPrice", "parcelObjectId"}}

\* what fetch_details(p) can return under 'transactions': the key set of each dict
TxLists == UNION {[1..n -> TxKeySets] : n \in 0..MaxTx}

\* list(keys) for the set of keys: some order of them, here the one of TxKeyOrder
list_of(keys) == SelectSeq(TxKeyOrder, LAMBDA k : k \in keys)

\* `set().union(*(d.keys() for d in data['transactions']))`
union_keys(txs) == UNION {txs[i] : i \in 1..Len(txs)}

\* a fresh run: every parcel of the inventory is submitted, the flag is False; a later
\* run reads the same inventory and gets the same answers
ApStartRun ==
    /\ ap.runs < MaxRuns
    /\ \A p \in DOMAIN ap.fut : ap.fut[p] = "handled"
    /\ IF ap.runs = 0
       THEN \E n \in 1..MaxParcels : ap_data' \in [1..n -> TxLists]
       ELSE UNCHANGED ap_data
    /\ ap' = [fut |-> [p \in DOMAIN ap_data' |-> "running"], initialized |-> FALSE,
              runs |-> ap.runs + 1]
    /\ UNCHANGED <<coreVars, raceVars, lcVars, wrVars, bfVars, runVars, pg, fr, tailVars>>

\* a worker's fetch_details returns
ApWorkerFinish(p) ==
    /\ ap.fut[p] = "running"
    /\ ap' = [ap EXCEPT !.fut[p] = "done"]
    /\ UNCHANGED <<coreVars, raceVars, lcVars, wrVars, bfVars, runVars, ap_data, pg, fr, tailVars>>

\* one turn of `for future in as_completed(...)`, the part that saves transactions
ApSaveTransactions(p) ==
    /\ ap.fut[p] = "done"
    /\ LET txs        == ap_data[p]
           fieldnames == list_of(union_keys(txs))
           written    == [i \in 1..Len(txs) |-> RowLine([id |-> p], fieldnames)]
       IN IF txs # <<>>
          THEN /\ file' = [exists |-> TRUE,
                           lines  |-> file.lines
                                      \o (IF ap.initialized THEN <<>>
                                          ELSE <<HeaderLine(fieldnames)>>)
                                      \o written]
               /\ ap' = [ap EXCEPT !.fut[p] = "handled", !.initialized = TRUE]
          ELSE /\ UNCHANGED file
               /\ ap' = [ap EXCEPT !.fut[p] = "handled"]
    /\ UNCHANGED <<fetchVars, limVars, batchVars, appended, collVars, raceVars, lcVars,
                   wrVars, bfVars, runVars, ap_data, pg, fr, tailVars>>

InitParcels ==
    /\ site = "gamers" /\ rate_limiter = RateLimiterInit(site)
    /\ fetchIdle /\ limIdle /\ batchIdle /\ sinkIdle /\ collIdle /\ extIdle

NextParcels ==
    \/ ApStartRun
    \/ \E p \in DOMAIN ap.fut : ApWorkerFinish(p)
    \/ \E p \in DOMAIN ap.fut : ApSaveTransactions(p)

SpecParcels == InitParcels /\ [][NextParcels]_vars

\* C22: within a run the header of the output CSV is fixed by the first non-empty write,
\* and every row written after it has exactly the header's columns in the header's
\* order, whatever the completion order of the futures and the keys of the records.
C22_RowsMatchHeader ==
    (ap.runs = 1 /\ file.exists) =>
        /\ file.lines[1].kind = "header"
        /\ \A k \in 2..Len(file.lines) :
              /\ file.lines[k].kind = "row"
              /\ file.lines[k].cells = file.lines[1].cells


\* C30: after any number of consecutive runs that write to the same path, the header
\* row is in the output file exactly once: a run over an existing file adds no header.
C30_HeaderOnce ==
    file.exists => HeaderCount = 1

(***************************************************************************)
(* get_products_from_category (Server My Store) against a server that      *)
(* always has one more page                                                *)
(***************************************************************************)
\* the listing pages the server answers with: no card, or one card
PagingCards == {<<>>, << <<"", "/products/a", "">> >>}

\* one iteration of the loop, with what it fetched noted in pg
ServerPageFetched(ok, cards, has_next) ==
    /\ ServerPage(ok, cards, has_next)
    /\ pg' = [fetches |-> pg.fetches + 1, ok |-> ok, cards |-> Len(cards),
              has_next |-> has_next]
    /\ UNCHANGED <<fetchVars, limVars, batchVars, sinkVars, raceVars, lcVars, wrVars,
                   bfVars, runVars, apVars, fr, tailVars>>

InitPaging ==
    /\ site = "server" /\ rate_limiter = RateLimiterInit(site)
    /\ fetchIdle /\ limIdle /\ batchIdle /\ sinkIdle /\ collIdle /\ extIdle

NextPaging ==
    \E ok \in BOOLEAN, cards \in PagingCards, has_next \in BOOLEAN :
        ServerPageFetched(ok, cards, has_next)

SpecPaging == InitPaging /\ [][NextPaging]_vars /\ WF_vars(NextPaging)

\* the last page fetched ends the loop by itself
LastPageStops == ~pg.ok \/ pg.cards = 0 \/ ~pg.has_next

PagingSafe ==
    /\ pg.fetches <= PageLimit
    /\ (pg.fetches > 0 /\ LastPageStops) => cpc = "returned"
    /\ cpc = "returned" => (LastPageStops \/ pg.fetches = PageLimit)

\* C23: get_products_from_category terminates whatever the server answers: it fetches at
\* most 100 listing pages, and it stops at the first page that fails to fetch, has no
\* product card, or has no next-page link.
C23_PagingTerminates ==
    /\ []PagingSafe
    /\ <>(cpc = "returned")

\* every one of the 100 pages had a card and a next link: only the limit stops the loop
C23_Witness ==
    /\ cpc = "returned"
    /\ pg.fetches = PageLimit
    /\ ~LastPageStops

(***************************************************************************)
(* fetch_page(url, use_cache=True) called by several pool workers at once  *)
(* (the executors of get_products_with_filter_batch and of main).  The     *)
(* module globals are read and written without a lock, so each read and    *)
(* each write is a step of its own.                                        *)
(***************************************************************************)
FrWorkers == DOMAIN fr

\* what the worker's request ends with: a parsed document, or a failure
FrAnswers == Docs \cup {"None"}

frFrame == UNCHANGED <<site, pc, call, calls, cached_ok, pre, limVars, batchVars, sinkVars,
                       collVars, raceVars, lcVars, wrVars, bfVars, runVars, apVars, pg,
                       tailVars>>

\* `if use_cache and cache_key in PAGE_CACHE`
FrCheck(w) ==
    /\ fr[w].pc = "check"
    /\ fr' = [fr EXCEPT ![w].pc =
                 IF cache_hit(PAGE_CACHE, TRUE, get_cache_key(fr[w].url))
                 THEN "hit_load" ELSE "miss_load"]
    /\ UNCHANGED <<PAGE_CACHE, CACHE_HITS, CACHE_MISSES, net_gets, rate_limiter>>
    /\ frFrame

\* `CACHE_HITS += 1` / `CACHE_MISSES += 1`: the global is loaded
FrCounterLoad(w) ==
    /\ fr[w].pc \in {"hit_load", "miss_load"}
    /\ fr' = [fr EXCEPT ![w].tmp = IF fr[w].pc = "hit_load" THEN CACHE_HITS ELSE CACHE_MISSES,
                        ![w].pc  = IF fr[w].pc = "hit_load" THEN "hit_store" ELSE "miss_store"]
    /\ UNCHANGED <<PAGE_CACHE, CACHE_HITS, CACHE_MISSES, net_gets, rate_limiter>>
    /\ frFrame

\* the sum is stored back; on a hit `return PAGE_CACHE[cache_key]` follows
FrCounterStore(w) ==
    /\ fr[w].pc \in {"hit_store", "miss_store"}
    /\ IF fr[w].pc = "hit_store"
       THEN /\ CACHE_HITS' = fr[w].tmp + 1
            /\ fr' = [fr EXCEPT ![w].pc = "done",
                                ![w].result = PAGE_CACHE[get_cache_key(fr[w].url)]]
            /\ UNCHANGED CACHE_MISSES
       ELSE /\ CACHE_MISSES' = fr[w].tmp + 1
            /\ fr' = [fr EXCEPT ![w].pc = "get"]
            /\ UNCHANGED CACHE_HITS
    /\ UNCHANGED <<PAGE_CACHE, net_gets, rate_limiter>>
    /\ frFrame

\* rate_limiter.wait(), then session.get: it answers with a document, or the call fails
\* for good and returns None
FrGet(w, answer) ==
    /\ fr[w].pc = "get"
    /\ net_gets' = net_gets + 1
    /\ fr' = [fr EXCEPT ![w].gets = @ + 1,
                        ![w].result = answer,
                        ![w].pc = IF answer = "None" THEN "done" ELSE "store"]
    /\ UNCHANGED <<PAGE_CACHE, CACHE_HITS, CACHE_MISSES, rate_limiter>>
    /\ frFrame

\* `PAGE_CACHE[cache_key] = soup`, rate_limiter.report_success(), `return soup`
FrStore(w) ==
    /\ fr[w].pc = "store"
    /\ PAGE_CACHE' = cache_store(PAGE_CACHE, TRUE, get_cache_key(fr[w].url), fr[w].result)
    /\ rate_limiter' = report_success(rate_limiter, site)
    /\ fr' = [fr EXCEPT ![w].pc = "done"]
    /\ UNCHANGED <<CACHE_HITS, CACHE_MISSES, net_gets>>
    /\ frFrame

InitFetchRace ==
    /\ site \in Sites /\ rate_limiter = RateLimiterInit(site)
    /\ fetchIdle /\ limIdle /\ batchIdle /\ sinkIdle /\ collIdle
    /\ raceIdle /\ lcIdle /\ wrIdle /\ bfIdle /\ runIdle /\ apIdle /\ pg = PgIdle /\ tailIdle
    /\ \E n \in 1..MaxWorkers :
          fr \in [1..n -> [url : URLs, pc : {"check"}, tmp : {0}, gets : {0},
                           result : {"None"}]]

NextFetchRace ==
    \/ \E w \in FrWorkers : FrCheck(w)
    \/ \E w \in FrWorkers : FrCounterLoad(w)
    \/ \E w \in FrWorkers : FrCounterStore(w)
    \/ \E w \in FrWorkers, answer \in FrAnswers : FrGet(w, answer)
    \/ \E w \in FrWorkers : FrStore(w)

SpecFetchRace == InitFetchRace /\ [][NextFetchRace]_vars

FrDone == \A w \in FrWorkers : fr[w].pc = "done"

\* the GETs issued for URL u
GetsTo(u) == Cardinality({w \in FrWorkers : fr[w].url = u /\ fr[w].gets > 0})

\* C25: whatever the interleaving of the workers' concurrent fetch_page(u, use_cache=True)
\* calls for a URL u not cached yet, at most one GET to u is issued and all the calls
\* return the same parsed document.
C25_OneGetPerUrl ==
    FrDone =>
        \A u \in URLs :
            /\ GetsTo(u) <= 1
            /\ \A v, w \in FrWorkers :
                  (fr[v].url = u /\ fr[w].url = u) => fr[v].result = fr[w].result

\* C26: once all the workers' concurrent fetch_page calls have returned,
\* CACHE_HITS + CACHE_MISSES is the number of calls made: no increment is lost.
C26_CountersExact ==
    FrDone => CACHE_HITS + CACHE_MISSES = Cardinality(FrWorkers)

(***************************************************************************)
(* enrich_single_parcel (nontransactional.py) and the counting of its      *)
(* status in main()                                                        *)
(***************************************************************************)
\* province ids of the region (province_ids); 0 stands for "no province_id"
ProvinceLists == {<<>>, <<1>>, <<1, 2>>}

\* what fetch_parcel_details returns for a province: "ERROR", None, a details dict with
\* a provinceId, or one without
Answers == {"ERROR", "None", "details", "details_noprov"}

\* the parcel and its surroundings: the tile's province_id, whether parcel_no and a
\* numeric subdivision_no are there, whether a neighborhood_id is there, the region's
\* provinces, the API's answer per province, the provinces provinces_dict knows
EnrichInputs ==
    [tile_province : {0, 1}, has_ids : BOOLEAN, neighborhood : BOOLEAN,
     province_ids : ProvinceLists, answers : [{1, 2} -> Answers],
     known : {{}, {1}, {1, 2}}]

\* `for prov_id in prov_list`: the first province whose answer is "ERROR" or a details
\* dict ends the loop; 0 when the loop runs to its end
RECURSIVE first_answered(_, _)
first_answered(prov_list, answers) ==
    IF prov_list = <<>> THEN 0
    ELSE IF answers[Head(prov_list)] # "None" THEN Head(prov_list)
    ELSE first_answered(Tail(prov_list), answers)

\* `for prov_id in province_ids: if prov_info: ... break`
RECURSIVE first_known(_, _)
first_known(province_ids, known) ==
    IF province_ids = <<>> THEN 0
    ELSE IF Head(province_ids) \in known THEN Head(province_ids)
    ELSE first_known(Tail(province_ids), known)

\* strategy 1: the API lookup
strategy1(inp) ==
    LET prov_list == IF inp.tile_province # 0 THEN <<inp.tile_province>> ELSE inp.province_ids
        hit       == IF inp.has_ids THEN first_answered(prov_list, inp.answers) ELSE 0
        answer    == IF hit = 0 THEN "None" ELSE inp.answers[hit]
    IN [province_id |-> IF answer = "details" THEN hit ELSE inp.tile_province,
        status      |-> IF answer = "ERROR" THEN "ERROR"
                        ELSE IF answer \in {"details", "details_noprov"} THEN "API_ENRICHED"
                        ELSE "TILE_ONLY",
        fetch_error |-> answer = "ERROR"]

\* enrich_single_parcel: the province_id and the enrichment_status it returns, and
\* whether fetch_parcel_details returned "ERROR" on the way
enrich_single_parcel(inp) ==
    LET s1 == strategy1(inp)
        k  == first_known(inp.province_ids, inp.known)
        s2 == IF s1.province_id = 0 /\ inp.neighborhood /\ k # 0
              THEN [s1 EXCEPT !.province_id = k, !.status = "NEIGHBORHOOD_INFERRED"]
              ELSE s1
    IN IF s2.province_id = 0 /\ inp.province_ids # <<>>
       THEN [s2 EXCEPT !.province_id = inp.province_ids[1], !.status = "DEFAULT_PROVINCE"]
       ELSE s2

\* a chunk with one new parcel: it is counted as found, enriched by the pool, and its
\* status counted by the collection loop
EnrichOne(inp) ==
    /\ en.n < MaxEnrich
    /\ LET res == enrich_single_parcel(inp) IN
          /\ stats' = count_status([stats EXCEPT !.parcels_found = @ + 1], res.status)
          /\ en' = [n |-> en.n + 1, fetch_error |-> res.fetch_error, status |-> res.status,
                    inp |-> inp, errors_before |-> stats.errors]
    /\ UNCHANGED <<fetchVars, limVars, outcome, fstate, enriched_results, bpc, csv_rows,
                   sinkVars, collVars, raceVars, lcVars, wrVars, bfVars, runVars, apVars,
                   pg, fr, rs, dd_script, dd>>

InitEnrich ==
    /\ site = "gamers" /\ rate_limiter = RateLimiterInit(site)
    /\ fetchIdle /\ limIdle /\ batchIdle /\ sinkIdle /\ collIdle /\ extIdle

NextEnrich == \E inp \in EnrichInputs : EnrichOne(inp)

SpecEnrich == InitEnrich /\ [][NextEnrich]_vars

\* C27: every parcel for which fetch_parcel_details returned "ERROR" comes back from
\* enrich_single_parcel with a status containing ERROR and adds exactly one to
\* stats.errors, whether or not its tile properties carried a province_id; and
\* stats.parcels_enriched + stats.errors never exceeds stats.parcels_found.
C27_FetchErrorIsCounted ==
    /\ en.fetch_error =>
          /\ en.status = "ERROR"
          /\ stats.errors = en.errors_before + 1
    /\ stats.parcels_enriched + stats.errors <= stats.parcels_found

(***************************************************************************)
(* chk_regions.py: check_region_completion and the main loop, run again    *)
(* over the output file of the run before                                  *)
(***************************************************************************)
ResumeThreshold == 10

RsRegions == 1..MaxRegions

\* how many transactions the API has for a region; their keys are 1..n
ApiCounts == {2, ResumeThreshold}

RECURSIVE SumTo(_, _)
SumTo(f, n) == IF n = 0 THEN 0 ELSE f[n] + SumTo(f, n - 1)

\* the rows of the file whose regionId is r
row_count(rows, r) == SumTo(rows[r], Len(rows[r]))

\* check_region_completion(region_id): a missing file has no row
check_region_completion(rows, r) == row_count(rows, r) >= ResumeThreshold

\* the regions of q, in order, for which keep holds
regions_where(keep) == SelectSeq([i \in 1..MaxRegions |-> i], LAMBDA r : r \in keep)

rsFrame == UNCHANGED <<coreVars, raceVars, lcVars, wrVars, bfVars, runVars, apVars, pg, fr, en,
                       dd_script, dd>>

\* the script starts: get_all_regions_status(), regions_to_process; seen_transactions
\* is the empty set
RsStartRun ==
    /\ rs.pc = "idle" /\ rs.runs < MaxRuns
    /\ \E api \in [RsRegions -> ApiCounts] :
          LET first == rs.runs = 0
              a     == IF first THEN api ELSE rs.api
              rows  == IF first THEN [r \in RsRegions |-> [k \in 1..a[r] |-> 0]] ELSE rs.rows
              done  == {r \in RsRegions : check_region_completion(rows, r)}
          IN rs' = [pc |-> "loop", runs |-> rs.runs + 1, api |-> a, rows |-> rows,
                    had |-> [r \in RsRegions |-> row_count(rows, r)],
                    todo |-> regions_where(RsRegions \ done), skipped |-> done]
    /\ rsFrame

\* one turn of `for region_id in regions_to_process`: the loops fetch the first m
\* transactions of the region before a request fails or the data ends; none is in
\* seen_transactions; their rows are appended to the file
RsScrapeRegion(m) ==
    /\ rs.pc = "loop" /\ rs.todo # <<>>
    /\ LET r == Head(rs.todo) IN
          /\ m = rs.api[r] \/ m <= 1     \* all of them, or the loops break early
          /\ rs' = [rs EXCEPT !.todo = Tail(@),
                              !.rows[r] = [k \in 1..rs.api[r] |->
                                              IF k <= m THEN @[k] + 1 ELSE @[k]]]
    /\ rsFrame

RsEndRun ==
    /\ rs.pc = "loop" /\ rs.todo = <<>>
    /\ rs' = [rs EXCEPT !.pc = "idle"]
    /\ rsFrame

InitResume ==
    /\ site = "gamers" /\ rate_limiter = RateLimiterInit(site)
    /\ fetchIdle /\ limIdle /\ batchIdle /\ sinkIdle /\ collIdle /\ extIdle

NextResume ==
    \/ RsStartRun
    \/ \E m \in 0..ResumeThreshold : RsScrapeRegion(m)
    \/ RsEndRun

SpecResume == InitResume /\ [][NextResume]_vars

\* the regions the run scrapes again although the file had rows for them
Rescraped == {r \in DOMAIN rs.had : rs.had[r] >= 1 /\ rs.had[r] < ResumeThreshold}

\* C28: a region is skipped iff the existing output file already has at least 10 rows
\* for it; and after a resumed run that scrapes again a region with 1 to 9 existing rows
\* the file has no two rows with the same (regionId, neighborhoodId, transaction number).
C28_ResumeWithoutDuplicates ==
    /\ rs.runs >= 1 =>
          \A r \in RsRegions : r \in rs.skipped <=> rs.had[r] >= ResumeThreshold
    /\ (rs.runs >= 2 /\ rs.pc = "idle" /\ Rescraped # {}) =>
          \A r \in RsRegions : \A k \in DOMAIN rs.rows[r] : rs.rows[r][k] <= 1

(***************************************************************************)
(* The seen-sets: seen_transactions (main.py process_region), seen_ids     *)
(* (nontransactional.py main), seen_parcels (Parcel-Centric Real Estate    *)
(* Scraper, process_neighborhood)                                          *)
(***************************************************************************)
DdScripts == {"main", "nontransactional", "parcel"}

\* transaction numbers, and parcel ids (0: the record carries no id)
TxNumbers == {1, 2}
ParcelIds == {0, 1, 2}
Neighborhoods == {1, 2}

\* a filter that tests the seen-set of before the batch and never adds to it on the way
filter_new_noadd(keys, seen) == SelectSeq(keys, LAMBDA k : k \notin seen)

\* `for x in batch: if key not in seen: seen.add(key); new.append(x)`
filter_new(keys, seen) == FirstOccurrencesFrom(keys, 1, seen)

\* whether a key of the batch was met before, in the batch or in an earlier one
Repeated(keys, seen) ==
    \/ Range(keys) \cap seen # {}
    \/ \E i, j \in 1..Len(keys) : i # j /\ keys[i] = keys[j]

ddFrame == UNCHANGED <<coreVars, raceVars, lcVars, wrVars, bfVars, runVars, apVars, pg, fr, en,
                       rs, dd_script>>

\* what all three do with the new keys of a batch: they go to the enrichment stage, and
\* their rows are written unless the batch fails before its write
DdTake(keys, new, ok) ==
    /\ dd.n < MaxStreams
    /\ dd' = [seen     |-> dd.seen \cup Range(new),
              admitted |-> dd.admitted \o new,
              written  |-> IF ok THEN dd.written \o new ELSE dd.written,
              n        |-> dd.n + 1,
              repeat   |-> dd.repeat \/ Repeated(keys, dd.seen)]
    /\ ddFrame

\* main.py: the transactions of one neighborhood of the region
DdNeighborhood(nb, txs, ok) ==
    /\ dd_script = "main"
    /\ LET keys == [i \in 1..Len(txs) |-> <<1, nb, txs[i]>>]
       IN DdTake(keys, filter_new(keys, dd.seen), ok)

\* nontransactional.py: the parcels of one chunk of tiles; a parcel without id is dropped
DdTileChunk(pids, ok) ==
    /\ dd_script = "nontransactional"
    /\ LET with_id == SelectSeq(pids, LAMBDA k : k # 0)
       IN DdTake(with_id, filter_new(with_id, dd.seen), ok)

\* Parcel-Centric Real Estate Scraper: the parcels discovered in one neighborhood are a
\* set, listed in some order; the processing loop skips what is in seen_parcels
DdDiscover(pids, ok) ==
    /\ dd_script = "parcel"
    /\ LET with_id    == SelectSeq(pids, LAMBDA k : k # 0)
           discovered == Range(with_id) \ dd.seen
       IN \E discovered_list \in Orderings(discovered) :
             /\ dd.n < MaxStreams
             /\ dd' = [seen     |-> dd.seen \cup discovered,
                       admitted |-> dd.admitted \o discovered_list,
                       written  |-> IF ok
                                    THEN dd.written \o filter_new(discovered_list, dd.seen)
                                    ELSE dd.written,
                       n        |-> dd.n + 1,
                       repeat   |-> dd.repeat \/ Repeated(with_id, dd.seen)]
             /\ ddFrame

InitDedupe ==
    /\ site = "gamers" /\ rate_limiter = RateLimiterInit(site)
    /\ fetchIdle /\ limIdle /\ batchIdle /\ sinkIdle /\ collIdle
    /\ raceIdle /\ lcIdle /\ wrIdle /\ bfIdle /\ runIdle /\ apIdle /\ pg = PgIdle /\ fr = <<>>
    /\ en = EnIdle /\ rs = RsIdle
    /\ dd_script \in DdScripts
    /\ dd = DdIdle

NextDedupe ==
    \/ \E nb \in Neighborhoods, txs \in SeqsUpTo(TxNumbers, MaxTx), ok \in BOOLEAN :
          DdNeighborhood(nb, txs, ok)
    \/ \E pids \in SeqsUpTo(ParcelIds, MaxTx), ok \in BOOLEAN : DdTileChunk(pids, ok)
    \/ \E pids \in SeqsUpTo(ParcelIds, MaxTx), ok \in BOOLEAN : DdDiscover(pids, ok)

SpecDedupe == InitDedupe /\ [][NextDedupe]_vars

NoRepeats(q) == \A i, j \in 1..Len(q) : i # j => q[i] # q[j]

\* C29: within one run each identity key is admitted to the enrichment stage and written
\* at most once: no two rows of the transaction scraper share (region_id,
\* neighborhood_id, transactionNumber), no parcel id is enriched twice by the
\* non-transactional scraper, no parcelObjectId is processed twice by the parcel-centric
\* scraper.
C29_EachKeyOnce ==
    /\ NoRepeats(dd.admitted)
    /\ NoRepeats(dd.written)
    /\ Range(dd.written) \subseteq Range(dd.admitted)

\* a key came again, in its batch or in a later one, and two keys were written
C29_Witness ==
    /\ dd.repeat
    /\ dd.n >= 2
    /\ Len(dd.written) = 2

====
